---- MODULE Spec2Model ----
(***************************************************************************)
(* Agent-MCP coordination kernel: the migration lock, the schema migration *)
(* manager, the graph reorganizer (granular migration) and the phase       *)
(* management tools, each as a state machine translated from its source.   *)
(*                                                                         *)
(* The four subsystems share one set of variables; each specification      *)
(* below moves the variables of one subsystem and leaves the others fixed. *)
(***************************************************************************)
EXTENDS Integers, Sequences, FiniteSets, TLC

(***************************************************************************)
(* Bounds of the model                                                     *)
(***************************************************************************)
NumProcs == 2        \* processes competing for .migration.lock
MaxTicks == 5        \* the clock runs from 0 to MaxTicks ticks
ClockStep == 100     \* seconds per clock tick
MaxTasks == 3        \* regular tasks in the legacy graph given to the reorganizer
MaxRuns == 2         \* calls of run_granular_migration
MaxNotes == 2        \* advance_phase appends to a notes list shorter than this
MaxMigRuns == 2      \* calls of check_and_migrate
MaxRetries == 5      \* retry_on_lock is called with max_retries in 0..MaxRetries

(***************************************************************************)
(* Program constants                                                       *)
(***************************************************************************)
LockTimeout == 120       \* migration_lock(timeout=120.0)
StaleThreshold == 300    \* _is_lock_stale(stale_threshold=300.0)
InitialDelay == 100      \* retry_on_lock(initial_delay=0.1), in milliseconds
MaxDelay == 2000         \* retry_on_lock(max_delay=2.0), in milliseconds
BackoffFactor == 2       \* retry_on_lock(backoff_factor=2.0)

VARIABLES
    \* ---- migration_lock.py ----
    hasFcntl,     \* fcntl is not None (sys.platform != 'win32')
    now,          \* time.time(), in clock ticks
    path,         \* the inode .migration.lock names, 0 when the file is absent
    content,      \* inode -> <<>> (empty file) or <<pid, timestamp>>
    flockOwner,   \* inode -> process holding the exclusive flock, 0 when free
    pc,           \* process -> position inside acquire()/release()
    lock_fd,      \* process -> inode of self.lock_fd, 0 when None
    is_locked,    \* process -> self.is_locked
    start_time,   \* process -> start_time of the running acquire()
    found_stale,  \* history: process -> the lock file recorded a stale lock when
                  \* its acquire() was called, and nobody has taken the lock since
    \* ---- granular_migration.py / relationship_aware_migration.py ----
    db_tasks,         \* the committed tasks table: task_id -> row
    pre_tasks,        \* history: the committed tasks table before the last call
    txn_tasks,        \* the tasks table as the last call's transaction left it
    phase_mapping,    \* Step 2 result: [current_phase, completed_phases, next_phase]
    phase_structure,  \* Step 4 result: workstream_mappings, a set of workstreams
    reorg_runs,       \* how many times run_granular_migration was called
    reorg_result,     \* its last return value: "none" before any call, "True", "False"
    failed_steps,     \* history: the steps of the last call that raised
    \* ---- phase_management_tools.py ----
    g_tasks,          \* g.tasks, the in-memory mirror: task_id -> row
    conn_tasks,       \* the tasks table as the running handler's connection sees it
    call,             \* the tool call in flight between its writes and its commit
    tool_call,        \* history: the latest tool invocation, [tool, token, audits, result]
    \* ---- migration_manager.py ----
    mig_config,            \* migration_config: [auto_migrate, interactive, auto_backup]
    schema_migrations,     \* committed rows of schema_migrations, oldest applied_at first
    conn_migrations,       \* rows inserted through self.conn and not committed yet
    has_migration_table,   \* the schema_migrations table exists
    has_code_support,      \* the tasks table has the code_language column
    backup,                \* the copy of the database _create_backup made in this call
    mig_pc,                \* position of check_and_migrate
    migrations_to_run,     \* the versions the loop of _do_migration has still to run
    migrators_run,         \* history: the versions whose migrator this call has run
    failed_version,        \* history: the version whose migrator raised in this call
    current_version,       \* what _get_current_version returned in this call
    mig_result,            \* what the last call returned: "none", "True", "False", "exit"
    migration_in_progress, \* g.migration_in_progress
    lock_acquired,         \* the call is inside `with migration_lock(...)`
    mig_runs,              \* how many times check_and_migrate was called
    \* ---- auto_migrate.py, sys.exit ----
    startup,          \* history: the startup entry point called, [entry, db_exists, result]
    exit_status,      \* <<>> while the process runs, <<status>> once sys.exit ended it
    \* ---- migration_config.py ----
    environ,          \* os.environ: key -> the text of AGENT_MCP_MIGRATION_<KEY>, or Unset
    conf_file,        \* .agent/migration.conf: key -> the text after `key =`, or Unset
    settings,         \* MigrationConfig.settings: key -> value
    cfg_pc,           \* position of MigrationConfig.__init__: "new", "env", "loaded"
    \* ---- relationship_aware_migration.py: _consolidate_clusters ----
    phase_cluster_map,  \* the argument: ws_type -> total_tasks, 0 when the key is absent
    consolidated,       \* the return value: ws_type -> total_tasks, 0 when absent
    cons_pc,            \* "ready" before the call, "done" after it
    \* ---- granular_migration.py Steps 1-2 and _assign_clusters_to_phases ----
    state_analysis,   \* Step 1's result: [completed_work, primary_focus, development_stage]
    cluster,          \* one cluster of the plan: task -> [status]
    step2_mapping,    \* the phase_mapping map_to_phases returned
    cluster_phase,    \* the phase _assign_clusters_to_phases gave the cluster
    assign_pc,        \* "analyzed", "mapped", "assigned"
    \* ---- the notes column of one task, written by concurrent connections ----
    store_notes,      \* the committed notes of the task: a sequence of entries
    writer,           \* the connection whose transaction holds the write lock, 0 when none
    txn_notes,        \* the notes column as the open write transaction left it
    h_pc,             \* handler process -> position inside advance_phase_tool_impl
    current_notes,    \* handler process -> its current_notes list
    h_calls,          \* handler process -> advance_phase calls it has committed
    reorg_pc,         \* position of _execute_granular_migration on this task
    \* ---- db_utils.py ----
    retry_via,        \* "retry_on_lock" or "with_retry" (the async wrapper's own loop)
    max_retries,      \* the max_retries argument
    func_locked,      \* func fails with "database is locked" on its first func_locked calls
    func_then,        \* what func does after that: "ok", "operational", "other"
    attempt,          \* the loop variable of `for attempt in range(max_retries + 1)`
    delay,            \* the delay variable, in milliseconds
    retry_pc,         \* "loop", or how the call ended: "returned", "raised", "lock_error"
    func_calls,       \* history: how many times func was invoked
    retry_sleeps,     \* history: the delays slept, before jitter
    raised            \* the exception that left the call: "none", "operational", "other",
                      \* "DatabaseLockError"

lockVars == <<hasFcntl, now, path, content, flockOwner, pc, lock_fd, is_locked,
              start_time, found_stale>>

reorgHistVars == <<pre_tasks, txn_tasks, phase_mapping, phase_structure,
                   reorg_runs, reorg_result, failed_steps>>

reorgVars == <<db_tasks, reorgHistVars>>

phaseVars == <<g_tasks, conn_tasks, call, tool_call>>

migVars == <<mig_config, schema_migrations, conn_migrations, has_migration_table,
             has_code_support, backup, mig_pc, migrations_to_run, migrators_run,
             failed_version, current_version, mig_result, migration_in_progress,
             lock_acquired, mig_runs>>

retryVars == <<retry_via, max_retries, func_locked, func_then, attempt, delay,
               retry_pc, func_calls, retry_sleeps, raised>>

startupVars == <<startup, exit_status>>

configVars == <<environ, conf_file, settings, cfg_pc>>

consVars == <<phase_cluster_map, consolidated, cons_pc>>

assignVars == <<state_analysis, cluster, step2_mapping, cluster_phase, assign_pc>>

notesVars == <<store_notes, writer, txn_notes, h_pc, current_notes, h_calls, reorg_pc>>

vars == <<lockVars, reorgVars, phaseVars, migVars, retryVars, startupVars, configVars, consVars, notesVars,
          assignVars>>

nonLockVars == <<reorgVars, phaseVars, migVars, retryVars, startupVars, configVars, consVars, notesVars,
    assignVars>>
nonReorgVars == <<lockVars, phaseVars, migVars, retryVars, startupVars, configVars, consVars, notesVars,
    assignVars>>
nonPhaseVars == <<lockVars, reorgHistVars, migVars, retryVars, startupVars, configVars, consVars, notesVars,
    assignVars>>
nonMigVars == <<lockVars, phaseVars, retryVars, startupVars, configVars, consVars, notesVars,
    assignVars>>
nonMigExitVars == <<lockVars, phaseVars, retryVars, startup, configVars, consVars, notesVars,
    assignVars>>
nonRetryVars == <<lockVars, reorgVars, phaseVars, migVars, startupVars, configVars, consVars, notesVars,
    assignVars>>
nonConfigVars == <<lockVars, reorgVars, phaseVars, migVars, retryVars, startupVars, consVars, notesVars,
    assignVars>>
nonConsVars == <<lockVars, reorgVars, phaseVars, migVars, retryVars, startupVars, configVars, notesVars,
    assignVars>>
nonNotesVars == <<lockVars, reorgVars, phaseVars, migVars, retryVars, startupVars,
                  configVars, consVars, assignVars>>
nonAssignVars == <<lockVars, reorgVars, phaseVars, migVars, retryVars, startupVars,
                   configVars, consVars, notesVars>>
nonStartupVars == <<lockVars, reorgVars, phaseVars, migVars, retryVars, configVars, consVars, notesVars,
    assignVars>>

Procs == 1..NumProcs
Inodes == 1..(NumProcs + 1)

(***************************************************************************)
(* migration_lock.py                                                       *)
(***************************************************************************)

\* Inodes still referenced by the directory entry or by an open descriptor.
Referenced(pathv, fds) == {i \in Inodes : i = pathv \/ \E p \in Procs : fds[p] = i}

\* The inode a file creation gets: one nobody references any more.
FreshInode == CHOOSE i \in Inodes : i \notin Referenced(path, lock_fd)
                 /\ \A j \in Inodes : j \notin Referenced(path, lock_fd) => i <= j

\* An inode no longer referenced is gone: its content and its flock with it.
Reap(f, pathv, fds, empty) ==
    [i \in Inodes |-> IF i \in Referenced(pathv, fds) THEN f[i] ELSE empty]

Alive(pid) == pc[pid] # "dead"

\* os.getpid() / time.time() record written into the lock file
LockRecord(p) == <<p, now>>

\* MigrationLock._is_lock_stale
IsLockStale ==
    IF path = 0 THEN FALSE
    ELSE LET lines == content[path] IN
         IF Len(lines) >= 2
         THEN IF (now - lines[2]) * ClockStep > StaleThreshold THEN TRUE
              ELSE ~Alive(lines[1])
         ELSE FALSE

\* acquire(): start_time = time.time(); enter the while loop
AcquireStart(p) ==
    /\ pc[p] = "idle"
    /\ start_time' = [start_time EXCEPT ![p] = now]
    /\ pc' = [pc EXCEPT ![p] = IF hasFcntl THEN "open" ELSE "openx"]
    /\ found_stale' = [found_stale EXCEPT ![p] = IsLockStale]
    /\ UNCHANGED <<hasFcntl, now, path, content, flockOwner, lock_fd, is_locked>>
    /\ UNCHANGED nonLockVars

\* self.lock_fd = open(self.lock_file, 'w'): create or truncate
OpenW(p) ==
    /\ pc[p] = "open"
    /\ IF path = 0
       THEN /\ path' = FreshInode
            /\ lock_fd' = [lock_fd EXCEPT ![p] = FreshInode]
            /\ content' = [content EXCEPT ![FreshInode] = <<>>]
       ELSE /\ path' = path
            /\ lock_fd' = [lock_fd EXCEPT ![p] = path]
            /\ content' = [content EXCEPT ![path] = <<>>]
    /\ pc' = [pc EXCEPT ![p] = "flock"]
    /\ UNCHANGED <<hasFcntl, now, flockOwner, is_locked, start_time,
                   found_stale>>
    /\ UNCHANGED nonLockVars

\* fcntl.flock(fd, LOCK_EX | LOCK_NB) succeeds
FlockOk(p) ==
    /\ pc[p] = "flock"
    /\ flockOwner[lock_fd[p]] = 0
    /\ flockOwner' = [flockOwner EXCEPT ![lock_fd[p]] = p]
    /\ pc' = [pc EXCEPT ![p] = "write"]
    /\ found_stale' = [q \in Procs |-> FALSE]
    /\ UNCHANGED <<hasFcntl, now, path, content, lock_fd, is_locked, start_time>>
    /\ UNCHANGED nonLockVars

\* fcntl.flock raises IOError: close the descriptor
FlockFail(p) ==
    /\ pc[p] = "flock"
    /\ flockOwner[lock_fd[p]] # 0
    /\ LET fds == [lock_fd EXCEPT ![p] = 0] IN
       /\ lock_fd' = fds
       /\ content' = Reap(content, path, fds, <<>>)
       /\ flockOwner' = Reap(flockOwner, path, fds, 0)
    /\ pc' = [pc EXCEPT ![p] = "timeout_check"]
    /\ UNCHANGED <<hasFcntl, now, path, is_locked, start_time,
                   found_stale>>
    /\ UNCHANGED nonLockVars

\* write pid and timestamp, flush, is_locked = True, return True
WriteRecord(p) ==
    /\ pc[p] = "write"
    /\ content' = [content EXCEPT ![lock_fd[p]] = LockRecord(p)]
    /\ is_locked' = [is_locked EXCEPT ![p] = TRUE]
    /\ pc' = [pc EXCEPT ![p] = "held"]
    /\ UNCHANGED <<hasFcntl, now, path, flockOwner, lock_fd, start_time,
                   found_stale>>
    /\ UNCHANGED nonLockVars

\* if time.time() - start_time > timeout: return False
TimeoutCheck(p) ==
    /\ pc[p] = "timeout_check"
    /\ pc' = [pc EXCEPT ![p] = IF (now - start_time[p]) * ClockStep > LockTimeout
                               THEN "timed_out" ELSE "stale_check"]
    /\ UNCHANGED <<hasFcntl, now, path, content, flockOwner, lock_fd, is_locked,
                   start_time,
                   found_stale>>
    /\ UNCHANGED nonLockVars

\* if self._is_lock_stale(): ... (the fcntl branch, before the sleep)
StaleCheck(p) ==
    /\ pc[p] = "stale_check"
    /\ pc' = [pc EXCEPT ![p] = IF IsLockStale THEN "unlink_stale" ELSE "sleep"]
    /\ UNCHANGED <<hasFcntl, now, path, content, flockOwner, lock_fd, is_locked,
                   start_time,
                   found_stale>>
    /\ UNCHANGED nonLockVars

\* self.lock_file.unlink(), errors swallowed
UnlinkStale(p) ==
    /\ pc[p] = "unlink_stale"
    /\ path' = 0
    /\ content' = Reap(content, 0, lock_fd, <<>>)
    /\ flockOwner' = Reap(flockOwner, 0, lock_fd, 0)
    /\ pc' = [pc EXCEPT ![p] = "sleep"]
    /\ UNCHANGED <<hasFcntl, now, lock_fd, is_locked, start_time,
                   found_stale>>
    /\ UNCHANGED nonLockVars

\* time.sleep(1.0), then the next iteration of the while loop
Sleep(p) ==
    /\ pc[p] = "sleep"
    /\ pc' = [pc EXCEPT ![p] = "open"]
    /\ UNCHANGED <<hasFcntl, now, path, content, flockOwner, lock_fd, is_locked,
                   start_time,
                   found_stale>>
    /\ UNCHANGED nonLockVars

\* acquire() returned False; the caller gives up
GiveUp(p) ==
    /\ pc[p] = "timed_out"
    /\ pc' = [pc EXCEPT ![p] = "idle"]
    /\ UNCHANGED <<hasFcntl, now, path, content, flockOwner, lock_fd, is_locked,
                   start_time,
                   found_stale>>
    /\ UNCHANGED nonLockVars

\* Windows: self.lock_fd = open(self.lock_file, 'x'), exclusive creation
OpenX(p) ==
    /\ pc[p] = "openx"
    /\ IF path = 0
       THEN /\ path' = FreshInode
            /\ lock_fd' = [lock_fd EXCEPT ![p] = FreshInode]
            /\ content' = [content EXCEPT ![FreshInode] = <<>>]
            /\ pc' = [pc EXCEPT ![p] = "wwrite1"]
            /\ found_stale' = [q \in Procs |-> FALSE]
       ELSE /\ UNCHANGED <<path, lock_fd, content, found_stale>>
            /\ pc' = [pc EXCEPT ![p] = "wstale_check"]   \* FileExistsError
    /\ UNCHANGED <<hasFcntl, now, flockOwner, is_locked, start_time>>
    /\ UNCHANGED nonLockVars

\* Windows: write pid and timestamp, flush, close
WWrite1(p) ==
    /\ pc[p] = "wwrite1"
    /\ LET fds == [lock_fd EXCEPT ![p] = 0]
           written == [content EXCEPT ![lock_fd[p]] = LockRecord(p)] IN
       /\ lock_fd' = fds
       /\ content' = Reap(written, path, fds, <<>>)
    /\ pc' = [pc EXCEPT ![p] = "wreopen"]
    /\ UNCHANGED <<hasFcntl, now, path, flockOwner, is_locked, start_time,
                   found_stale>>
    /\ UNCHANGED nonLockVars

\* Windows: self.lock_fd = open(self.lock_file, 'w'), "for consistency"
WReopen(p) ==
    /\ pc[p] = "wreopen"
    /\ IF path = 0
       THEN /\ path' = FreshInode
            /\ lock_fd' = [lock_fd EXCEPT ![p] = FreshInode]
            /\ content' = [content EXCEPT ![FreshInode] = <<>>]
       ELSE /\ path' = path
            /\ lock_fd' = [lock_fd EXCEPT ![p] = path]
            /\ content' = [content EXCEPT ![path] = <<>>]
    /\ pc' = [pc EXCEPT ![p] = "write"]
    /\ UNCHANGED <<hasFcntl, now, flockOwner, is_locked, start_time,
                   found_stale>>
    /\ UNCHANGED nonLockVars

\* Windows: except FileExistsError: if self._is_lock_stale(): ...
WStaleCheck(p) ==
    /\ pc[p] = "wstale_check"
    /\ pc' = [pc EXCEPT ![p] = IF IsLockStale THEN "wunlink" ELSE "openx"]
    /\ UNCHANGED <<hasFcntl, now, path, content, flockOwner, lock_fd, is_locked,
                   start_time,
                   found_stale>>
    /\ UNCHANGED nonLockVars

\* A file another process holds open cannot be deleted on Windows.
OpenBySomeone == \E q \in Procs : path # 0 /\ lock_fd[q] = path

\* Windows: self.lock_file.unlink(), errors swallowed; the loop starts over with
\* neither a timeout check nor a sleep
WUnlink(p) ==
    /\ pc[p] = "wunlink"
    /\ LET newpath == IF OpenBySomeone THEN path ELSE 0 IN
       /\ path' = newpath
       /\ content' = Reap(content, newpath, lock_fd, <<>>)
    /\ pc' = [pc EXCEPT ![p] = "openx"]
    /\ UNCHANGED <<hasFcntl, now, flockOwner, lock_fd, is_locked, start_time,
                   found_stale>>
    /\ UNCHANGED nonLockVars

\* release(): fcntl.flock(fd, LOCK_UN)
RelUnlock(p) ==
    /\ pc[p] = "held"
    /\ hasFcntl
    /\ flockOwner' = [i \in Inodes |-> IF flockOwner[i] = p THEN 0 ELSE flockOwner[i]]
    /\ pc' = [pc EXCEPT ![p] = "rel_close"]
    /\ UNCHANGED <<hasFcntl, now, path, content, lock_fd, is_locked, start_time,
                   found_stale>>
    /\ UNCHANGED nonLockVars

\* release(): self.lock_fd.close()
RelClose(p) ==
    /\ \/ pc[p] = "rel_close"
       \/ pc[p] = "held" /\ ~hasFcntl
    /\ LET fds == [lock_fd EXCEPT ![p] = 0] IN
       /\ lock_fd' = fds
       /\ content' = Reap(content, path, fds, <<>>)
       /\ flockOwner' = Reap(flockOwner, path, fds, 0)
    /\ pc' = [pc EXCEPT ![p] = "rel_unlink"]
    /\ UNCHANGED <<hasFcntl, now, path, is_locked, start_time,
                   found_stale>>
    /\ UNCHANGED nonLockVars

\* release(): if self.lock_file.exists(): self.lock_file.unlink(); finally:
\* self.lock_fd = None; self.is_locked = False
RelUnlink(p) ==
    /\ pc[p] = "rel_unlink"
    /\ LET newpath == IF ~hasFcntl /\ OpenBySomeone THEN path ELSE 0 IN
       /\ path' = newpath
       /\ content' = Reap(content, newpath, lock_fd, <<>>)
       /\ flockOwner' = Reap(flockOwner, newpath, lock_fd, 0)
    /\ is_locked' = [is_locked EXCEPT ![p] = FALSE]
    /\ pc' = [pc EXCEPT ![p] = "idle"]
    /\ UNCHANGED <<hasFcntl, now, lock_fd, start_time,
                   found_stale>>
    /\ UNCHANGED nonLockVars

\* The process dies while it holds the lock: the kernel closes its descriptor
\* (dropping the flock); the lock file stays behind.
Crash(p) ==
    /\ pc[p] = "held"
    /\ LET fds == [lock_fd EXCEPT ![p] = 0] IN
       /\ lock_fd' = fds
       /\ content' = Reap(content, path, fds, <<>>)
       /\ flockOwner' = Reap([i \in Inodes |-> IF flockOwner[i] = p THEN 0
                                               ELSE flockOwner[i]], path, fds, 0)
    /\ pc' = [pc EXCEPT ![p] = "dead"]
    /\ UNCHANGED <<hasFcntl, now, path, is_locked, start_time,
                   found_stale>>
    /\ UNCHANGED nonLockVars

\* The wall clock advances.
Tick ==
    /\ now < MaxTicks
    /\ now' = now + 1
    /\ UNCHANGED <<hasFcntl, path, content, flockOwner, pc, lock_fd, is_locked,
                   start_time,
                   found_stale>>
    /\ UNCHANGED nonLockVars

InitLock ==
    /\ hasFcntl \in BOOLEAN
    /\ now = 0
    /\ path = 0
    /\ content = [i \in Inodes |-> <<>>]
    /\ flockOwner = [i \in Inodes |-> 0]
    /\ pc = [p \in Procs |-> "idle"]
    /\ lock_fd = [p \in Procs |-> 0]
    /\ is_locked = [p \in Procs |-> FALSE]
    /\ start_time = [p \in Procs |-> 0]
    /\ found_stale = [p \in Procs |-> FALSE]

NextLock ==
    \/ \E p \in Procs :
          \/ AcquireStart(p) \/ OpenW(p) \/ FlockOk(p) \/ FlockFail(p)
          \/ WriteRecord(p) \/ TimeoutCheck(p) \/ StaleCheck(p) \/ UnlinkStale(p)
          \/ Sleep(p) \/ GiveUp(p)
          \/ OpenX(p) \/ WWrite1(p) \/ WReopen(p) \/ WStaleCheck(p) \/ WUnlink(p)
          \/ RelUnlock(p) \/ RelClose(p) \/ RelUnlink(p) \/ Crash(p)
    \/ Tick

\* acquire() returned True and release() has not been called since
Holds(p) == pc[p] = "held"

\* C1: at any instant at most one process holds the migration lock: no two
\* processes both have a successful, not-yet-released acquire().
C1_AtMostOneHolder ==
    \A p, q \in Procs : (Holds(p) /\ Holds(q)) => p = q

\* The process finds the lock not stale and goes on waiting
KeepsWaiting(p) ==
    \/ pc[p] = "stale_check" /\ pc'[p] = "sleep"
    \/ pc[p] = "wstale_check" /\ pc'[p] = "openx"

\* C12: a process that called acquire() while the lock file recorded a dead
\* pid or a timestamp older than 300 s, the lock not having been taken by
\* anyone since, removes that lock instead of waiting for it
C12_StaleLockReclaimed ==
    [][\A p \in Procs : KeepsWaiting(p) => ~found_stale[p]]_vars

\* Seconds since the process called acquire()
Waited(p) == (now - start_time[p]) * ClockStep

\* After a failed attempt the process decides to try again
TriesAgain(p) ==
    \/ pc[p] = "timeout_check" /\ pc'[p] = "stale_check"
    \/ pc[p] = "wstale_check" /\ pc'[p] = "openx"

\* Another live process holds the lock and the lock is not stale
HeldByAnother(p) ==
    /\ \E q \in Procs \ {p} : Holds(q)
    /\ ~IsLockStale

\* C13: while another live process holds a non-stale lock, acquire(timeout)
\* does not go on trying once the timeout has elapsed, on the fcntl path and
\* on the exclusive-create path alike
C13_BoundedAcquire ==
    [][\A p \in Procs :
          (TriesAgain(p) /\ HeldByAnother(p)) => Waited(p) <= LockTimeout]_vars

\* The lock file exists and holds the record p wrote: p's pid on the first
\* line, a timestamp on the second
HoldsRecordOf(p) ==
    /\ path # 0
    /\ Len(content[path]) = 2
    /\ content[path][1] = p

\* C30: while a process holds the migration lock, the lock file contains
\* that holder's record (pid, then acquisition timestamp), whatever other
\* processes are doing to acquire the lock.
C30_HolderRecordKept ==
    \A p \in Procs : Holds(p) => HoldsRecordOf(p)

(***************************************************************************)
(* Task ids, rows and tables (shared by the reorganizer and the tools)     *)
(***************************************************************************)

\* A task_id, split into the prefix that carries the structural meaning
\* ("phase_", "root_", anything else) and the rest of the string.
NullId == [k |-> "null", a |-> "", b |-> ""]            \* parent_task IS NULL
TaskId(name) == [k |-> "task", a |-> name, b |-> ""]    \* a regular task
PhaseId(name) == [k |-> "phase", a |-> name, b |-> ""]  \* "phase_..."
RootId(phase, ws_key) == [k |-> "root", a |-> phase, b |-> ws_key]  \* f"root_{phase_id}_{ws_key}"
MissingId == TaskId("gone")                             \* names no row of the table

\* task_id.startswith(('phase_', 'root_'))
IsSynthetic(id) == id.k \in {"phase", "root"}

TaskNames == <<"t1", "t2", "t3", "t4">>
RegularTasks(n) == {TaskId(TaskNames[i]) : i \in 1..n}

\* _get_phase_hierarchy / phase_order
PhaseOrder == <<"phase_1_foundation", "phase_2_intelligence",
                "phase_3_coordination", "phase_4_optimization">>
PhaseIndex(name) == CHOOSE i \in 1..4 : PhaseOrder[i] = name

NullNotes == 0 - 1      \* the notes column is NULL; otherwise notes is its length

Ids(tbl) == DOMAIN tbl

(***************************************************************************)
(* relationship_aware_migration.py: the plan                               *)
(***************************************************************************)

\* build_phase_structure: active_tasks = tasks whose status is not cancelled
ActiveTasks(tbl) == {t \in Ids(tbl) : tbl[t].status # "cancelled"}

\* TaskRelationshipAnalyzer._build_relationship_maps: the edges the collection
\* follows from a task: to its children (children_map), to its dependencies
\* (dependency_map) and to its dependents.
RelationEdges(tbl) ==
    LET A == ActiveTasks(tbl) IN
    {e \in A \X A :
        \/ e[2].k # "phase" /\ ~IsSynthetic(e[1]) /\ tbl[e[2]].parent_task = e[1]
        \/ e[1].k # "phase" /\ e[2] \in tbl[e[1]].depends_on_tasks
        \/ e[2].k # "phase" /\ e[1] \in tbl[e[2]].depends_on_tasks}

\* TaskRelationshipAnalyzer._identify_root_tasks
IsRootTask(tbl, t) ==
    LET parent_id == tbl[t].parent_task IN
    /\ ~IsSynthetic(t)
    /\ \/ parent_id = NullId
       \/ IsSynthetic(parent_id)
       \/ parent_id \notin ActiveTasks(tbl)

RECURSIVE Closure(_, _)
Closure(S, E) ==
    LET more == {e[2] : e \in {x \in E : x[1] \in S}} IN
    IF more \subseteq S THEN S ELSE Closure(S \cup more, E)

\* TaskRelationshipAnalyzer._collect_related_tasks called on an unvisited task
CollectRelatedTasks(tbl, start, visited) ==
    Closure({start}, {e \in RelationEdges(tbl) : e[1] \notin visited /\ e[2] \notin visited})

RECURSIVE ClustersFrom(_, _, _, _)
ClustersFrom(tbl, starts, visited, acc) ==
    IF starts = <<>> THEN [clusters |-> acc, visited |-> visited]
    ELSE LET s == Head(starts) IN
         IF s \in visited \/ IsSynthetic(s)
         THEN ClustersFrom(tbl, Tail(starts), visited, acc)
         ELSE LET c == CollectRelatedTasks(tbl, s, visited) IN
              ClustersFrom(tbl, Tail(starts), visited \cup c, Append(acc, c))

\* The ids of a table in created_at order (dict order of self.tasks)
RECURSIVE InOrder(_, _)
InOrder(S, i) ==
    IF i > Len(TaskNames) THEN <<>>
    ELSE IF TaskId(TaskNames[i]) \in S
         THEN <<TaskId(TaskNames[i])>> \o InOrder(S, i + 1)
         ELSE InOrder(S, i + 1)

SelectSeqIn(seq, S) == SelectSeq(seq, LAMBDA x : x \in S)

\* TaskRelationshipAnalyzer._build_task_clusters: from every root in dict order,
\* then from the unvisited tasks in the iteration order of a Python set
BuildTaskClusters(tbl, order) ==
    LET A == ActiveTasks(tbl)
        roots == InOrder({t \in A : IsRootTask(tbl, t)}, 1)
        first == ClustersFrom(tbl, roots, {}, <<>>)
        rest == SelectSeqIn(order, A \ first.visited)
    IN  ClustersFrom(tbl, rest, first.visited, first.clusters).clusters

CountStatus(tbl, c, st) == Cardinality({t \in c : tbl[t].status = st})

\* phase_mapping['next_phase'] as Step2_PhaseCurrentStateMapper.map_to_phases
\* computes it: None after the last phase
NextPhaseOf(current) ==
    IF PhaseIndex(current) < 4 THEN PhaseOrder[PhaseIndex(current) + 1] ELSE "None"

\* Step1_ProjectStateAnalyzer._analyze_completed_work: foundation_complete
FoundationComplete(tbl) ==
    \E t \in Ids(tbl) : tbl[t].status = "completed" /\ tbl[t].topic = "database"

\* Step1_ProjectStateAnalyzer._identify_development_stage: no task of the model
\* is about business logic, so has_business_logic is False
DevelopmentStage(tbl) ==
    IF ~FoundationComplete(tbl) THEN "foundation_building" ELSE "feature_development"

\* Step2_PhaseCurrentStateMapper.map_to_phases: current_phase
CurrentPhaseFor(tbl) ==
    IF DevelopmentStage(tbl) = "foundation_building" THEN "phase_1_foundation"
    ELSE IF FoundationComplete(tbl) THEN "phase_2_intelligence"
    ELSE "phase_1_foundation"

\* Step2_PhaseCurrentStateMapper.map_to_phases
PhaseMappingFor(current) ==
    [current_phase |-> current,
     completed_phases |-> {PhaseOrder[i] : i \in 1..(PhaseIndex(current) - 1)},
     next_phase |-> NextPhaseOf(current)]

\* RelationshipAwareMigration._assign_clusters_to_phases, for one cluster
AssignClusterToPhase(tbl, c, pm) ==
    IF CountStatus(tbl, c, "completed") = Cardinality(c) THEN "phase_1_foundation"
    ELSE IF CountStatus(tbl, c, "in_progress") > 0 THEN pm.current_phase
    ELSE IF CountStatus(tbl, c, "completed") > 0 THEN pm.current_phase
    ELSE pm.next_phase

\* TaskRelationshipAnalyzer._determine_workstream_type: the highest scoring
\* type. A task's topic is "database" when its title holds that keyword and
\* "plain" when it holds no keyword of any pattern.
DetermineWorkstreamType(tbl, c) ==
    IF \E t \in c : tbl[t].topic = "database" THEN "database" ELSE "general"

WorkstreamTypes == {"general", "database"}

\* RelationshipAwareMigration._consolidate_clusters: "Minimum size for
\* standalone workstream"
MinTasksPerWorkstream == 5

SeqToSet(seq) == {seq[i] : i \in 1..Len(seq)}

UnionOf(sets) == UNION sets

\* phase_clusters[phase][ws_type]: the tasks of the clusters of that type that
\* _assign_clusters_to_phases put into that phase
PhaseClusterTasks(tbl, clusters, pm, phase, ws_type) ==
    UnionOf({c \in SeqToSet(clusters) :
                /\ AssignClusterToPhase(tbl, c, pm) = phase
                /\ DetermineWorkstreamType(tbl, c) = ws_type})

\* RelationshipAwareMigration._consolidate_clusters for one phase: the tasks
\* behind each workstream key that survives. (No phase of the model has more
\* than 7 workstream types, so the second merge never applies.)
ConsolidateClusters(tbl, clusters, pm, phase) ==
    LET grp(ty) == PhaseClusterTasks(tbl, clusters, pm, phase, ty)
        present == {ty \in WorkstreamTypes : grp(ty) # {}}
        large == {ty \in present : Cardinality(grp(ty)) >= MinTasksPerWorkstream}
        small == present \ large
    IN  [ty \in (IF small # {} THEN large \cup {"general"} ELSE large) |->
            IF ty = "general" /\ small # {}
            THEN UnionOf({grp(x) : x \in small})
            ELSE grp(ty)]

\* The phases some cluster was assigned to, "None" included
PlannedPhases(tbl, clusters, pm) ==
    {AssignClusterToPhase(tbl, c, pm) : c \in SeqToSet(clusters)}

\* RelationshipAwareMigration.create_workstream_structure: workstream_mappings,
\* one record per workstream; task_assignments maps each of its tasks to it
WorkstreamMappings(tbl, clusters, pm) ==
    UnionOf({ LET cons == ConsolidateClusters(tbl, clusters, pm, phase) IN
              { [id |-> RootId(phase, ty), phase_id |-> phase, tasks |-> cons[ty]]
                  : ty \in DOMAIN cons }
            : phase \in PlannedPhases(tbl, clusters, pm) })

TaskAssignments(plan) == UnionOf({ {<<t, ws.id>> : t \in ws.tasks} : ws \in plan })

(***************************************************************************)
(* granular_migration.py: Step 5, the apply phase                          *)
(***************************************************************************)

\* Step4_PhaseStructureBuilder._create_phases_from_workstreams: phase status
PhaseStatusFor(phase, pm) ==
    IF phase \in pm.completed_phases THEN "completed"
    ELSE IF phase = pm.current_phase THEN "in_progress"
    ELSE "pending"

\* Step4_PhaseStructureBuilder._get_phase_info returns {} for an unknown id
KnownPhase(phase) == phase \in SeqToSet(PhaseOrder)

\* GranularMigrationManager._create_phase: the row it inserts
NewPhaseRow(phase, pm) ==
    [status |-> PhaseStatusFor(phase, pm), parent_task |-> NullId,
     depends_on_tasks |-> {}, notes |-> 1, topic |-> "plain"]

\* GranularMigrationManager._create_phase over phases_to_create
CreatePhases(tbl, phases, pm) ==
    [id \in Ids(tbl) \cup {PhaseId(ph) : ph \in phases} |->
        IF id \in Ids(tbl) THEN tbl[id] ELSE NewPhaseRow(id.a, pm)]

\* GranularMigrationManager._create_workstream_root: workstream status
WorkstreamStatus(tbl, tasks) ==
    IF \A t \in tasks : tbl[t].status = "completed" THEN "completed"
    ELSE IF \E t \in tasks : tbl[t].status = "in_progress" THEN "in_progress"
    ELSE IF \E t \in tasks : tbl[t].status = "completed" THEN "in_progress"
    ELSE "pending"

\* GranularMigrationManager._create_workstream_root: the row it inserts
NewWorkstreamRow(tbl, ws) ==
    [status |-> WorkstreamStatus(tbl, ws.tasks), parent_task |-> PhaseId(ws.phase_id),
     depends_on_tasks |-> {}, notes |-> 1, topic |-> "plain"]

\* _execute_granular_migration: "Only create workstream if it has tasks"
CreateWorkstreams(tbl, plan) ==
    LET made == {ws \in plan : Cardinality(ws.tasks) > 0} IN
    [id \in Ids(tbl) \cup {ws.id : ws \in made} |->
        IF id \in Ids(tbl) THEN tbl[id]
        ELSE NewWorkstreamRow(tbl, CHOOSE ws \in made : ws.id = id)]

\* _migrate_task: json.loads(task.get('notes', '[]')) raises on a NULL column
MigrateTaskRaises(tbl, t) == tbl[t].notes = NullNotes

ShouldUpdateParentAlways(tbl, t) == TRUE

\* _migrate_task: should_update_parent
ShouldUpdateParent(tbl, t) ==
    LET current_parent == tbl[t].parent_task IN
    \/ current_parent = NullId
    \/ IsSynthetic(current_parent)
    \/ current_parent \notin Ids(tbl)

\* GranularMigrationManager._migrate_task: the row after the call. An
\* exception is caught inside _migrate_task, which then returns False.
\* (MigrateTaskRewritesRow is the contrary: an UPDATE that also resets the
\* dependencies and the status.)
MigrateTaskRewritesRow(tbl, t, parent_id) ==
    IF t \notin Ids(tbl) \/ MigrateTaskRaises(tbl, t) THEN tbl[t]
    ELSE [tbl[t] EXCEPT !.parent_task = parent_id, !.notes = @ + 1,
                        !.depends_on_tasks = {}, !.status = "pending"]
MigrateTask(tbl, t, parent_id) ==
    IF t \notin Ids(tbl) \/ MigrateTaskRaises(tbl, t) THEN tbl[t]
    ELSE IF ShouldUpdateParent(tbl, t)
         THEN [tbl[t] EXCEPT !.parent_task = parent_id, !.notes = @ + 1]
         ELSE [tbl[t] EXCEPT !.notes = @ + 1]

\* _execute_granular_migration: the loop over task_assignments
MigrateTasks(tbl, plan) ==
    LET assign == TaskAssignments(plan) IN
    [id \in Ids(tbl) |->
        IF \E e \in assign : e[1] = id
        THEN MigrateTask(tbl, id, (CHOOSE e \in assign : e[1] = id)[2])
        ELSE tbl[id]]

\* _needs_migration: phase_count == 0 and total_tasks > 0
NeedsMigration(tbl) ==
    /\ ~\E id \in Ids(tbl) : id.k = "phase"
    /\ Ids(tbl) # {}

\* Steps 1, 2 and 4 of run_granular_migration on the loaded table. The legacy
\* tables of the model have no parent cycle, so every active task is reached
\* from a root task and the set of unvisited tasks is empty.
PlanMapping(tbl) == PhaseMappingFor(CurrentPhaseFor(tbl))

PlanStructure(tbl) ==
    LET clusters == BuildTaskClusters(tbl, InOrder(ActiveTasks(tbl), 1))
        pm == PlanMapping(tbl)
    IN  UnionOf({WorkstreamMappings(tbl, cs, m) : <<cs, m>> \in {<<clusters, pm>>}})

\* _create_phases_from_workstreams: phases_to_create
PhasesToCreate(plan) == {ws.phase_id : ws \in plan}

\* The tasks whose _migrate_task call raised and returned False
FailedTasks(tbl, plan) ==
    {e[1] : e \in {x \in TaskAssignments(plan) : MigrateTaskRaises(tbl, x[1])}}

NoMapping == [current_phase |-> "None", completed_phases |-> {}, next_phase |-> "None"]

\* run_granular_migration when _needs_migration() is False: return True
GranularMigrationSkipped ==
    /\ reorg_runs < MaxRuns
    /\ ~NeedsMigration(db_tasks)
    /\ reorg_runs' = reorg_runs + 1
    /\ pre_tasks' = db_tasks
    /\ txn_tasks' = db_tasks
    /\ phase_mapping' = NoMapping
    /\ phase_structure' = {}
    /\ failed_steps' = {}
    /\ reorg_result' = "True"
    /\ UNCHANGED db_tasks

RunGranularMigrationSkip ==
    /\ GranularMigrationSkipped
    /\ UNCHANGED nonReorgVars

\* run_granular_migration through _execute_granular_migration's commit: no
\* statement of _create_phase or _create_workstream_root raises
GranularMigrationCommitted ==
    /\ reorg_runs < MaxRuns
    /\ NeedsMigration(db_tasks)
    /\ \E pm \in {PlanMapping(db_tasks)}, plan \in {PlanStructure(db_tasks)} :
        \E with_phases \in {CreatePhases(db_tasks, PhasesToCreate(plan), pm)} :
        \E with_roots \in {CreateWorkstreams(with_phases, plan)} :
        \E migrated \in {MigrateTasks(with_roots, plan)} :
           /\ \A ph \in PhasesToCreate(plan) : KnownPhase(ph)
           /\ phase_mapping' = pm
           /\ phase_structure' = plan
           /\ txn_tasks' = migrated
           /\ db_tasks' = migrated
           /\ failed_steps' = FailedTasks(with_roots, plan)
    /\ reorg_runs' = reorg_runs + 1
    /\ pre_tasks' = db_tasks
    /\ reorg_result' = "True"

RunGranularMigration ==
    /\ GranularMigrationCommitted
    /\ UNCHANGED nonReorgVars

\* _execute_granular_migration's except branch returns False without
\* conn.commit(): of `committed`, the table before the call, and `txn`, the
\* table with the writes made before the exception, the store keeps the
\* first (AfterFailedExecuteKeepsWrites is the contrary, the writes surviving)
AfterFailedExecuteKeepsWrites(committed, txn) == txn

AfterFailedExecute(committed, txn) == committed

\* run_granular_migration when a statement of _create_phase ("create_phase")
\* or of _create_workstream_root ("create_workstream") raises: the except
\* branch of _execute_granular_migration returns False before conn.commit(),
\* so the committed table stays as it was
GranularMigrationFailed(step) ==
    /\ reorg_runs < MaxRuns
    /\ NeedsMigration(db_tasks)
    /\ \E pm \in {PlanMapping(db_tasks)}, plan \in {PlanStructure(db_tasks)} :
        \E with_phases \in {CreatePhases(db_tasks, PhasesToCreate(plan), pm)} :
           /\ \/ /\ step = "create_phase"
                 /\ PhasesToCreate(plan) # {}
                 /\ txn_tasks' = db_tasks
              \/ /\ step = "create_workstream"
                 /\ \A ph \in PhasesToCreate(plan) : KnownPhase(ph)
                 /\ \E ws \in plan : Cardinality(ws.tasks) > 0
                 /\ txn_tasks' = with_phases
           /\ phase_mapping' = pm
           /\ phase_structure' = plan
    /\ failed_steps' = {step}
    /\ reorg_runs' = reorg_runs + 1
    /\ pre_tasks' = db_tasks
    /\ reorg_result' = "False"

RunGranularMigrationFails(step) ==
    /\ GranularMigrationFailed(step)
    /\ db_tasks' = AfterFailedExecute(db_tasks, txn_tasks')
    /\ UNCHANGED nonReorgVars

Statuses == {"pending", "in_progress", "completed", "cancelled"}
Topics == {"plain", "database"}

\* Tasks created before t, in created_at order
TaskIndex(t) == CHOOSE i \in 1..Len(TaskNames) : TaskNames[i] = t.a

EarlierTasks(t) == {TaskId(TaskNames[i]) : i \in 1..(TaskIndex(t) - 1)}

\* A legacy (pre-phase) tasks table: a parent is NULL, an earlier task or a
\* task that has since been deleted; one later task, dep, may depend on t1;
\* only the first task may be about the database; only the last row may have
\* a NULL notes column.
LegacyRow(st, par, dep, nul, tp, t) ==
    [status |-> st[t], parent_task |-> par[t],
     depends_on_tasks |-> IF t = dep THEN {TaskId("t1")} ELSE {},
     notes |-> IF t = nul THEN NullNotes ELSE 0, topic |-> tp[t]]

InitReorg ==
    /\ \E n \in 0..MaxTasks :
         \E st \in [RegularTasks(n) -> Statuses],
            par \in [RegularTasks(n) -> RegularTasks(n) \cup {NullId, MissingId}],
            tp \in [RegularTasks(n) -> Topics],
            dep \in (RegularTasks(n) \ {TaskId("t1")}) \cup {NullId},
            nul \in {TaskId(TaskNames[i]) : i \in {n} \ {0}} \cup {NullId} :
              /\ \A t \in RegularTasks(n) :
                    par[t] \in EarlierTasks(t) \cup {NullId, MissingId}
              /\ \A t \in RegularTasks(n) : tp[t] = "database" => t = TaskId("t1")
              /\ db_tasks = [t \in RegularTasks(n) |-> LegacyRow(st, par, dep, nul, tp, t)]
    /\ pre_tasks = db_tasks
    /\ txn_tasks = db_tasks
    /\ phase_mapping = NoMapping
    /\ phase_structure = {}
    /\ reorg_runs = 0
    /\ reorg_result = "none"
    /\ failed_steps = {}

\* The reorganizer has nothing to work on
ReorgIdle ==
    /\ db_tasks = <<>>
    /\ pre_tasks = <<>>
    /\ txn_tasks = <<>>
    /\ phase_mapping = NoMapping
    /\ phase_structure = {}
    /\ reorg_runs = 0
    /\ reorg_result = "none"
    /\ failed_steps = {}

\* No process ever touches the migration lock
LockIdle ==
    /\ hasFcntl = TRUE
    /\ now = 0
    /\ path = 0
    /\ content = [i \in Inodes |-> <<>>]
    /\ flockOwner = [i \in Inodes |-> 0]
    /\ pc = [p \in Procs |-> "idle"]
    /\ lock_fd = [p \in Procs |-> 0]
    /\ is_locked = [p \in Procs |-> FALSE]
    /\ start_time = [p \in Procs |-> 0]
    /\ found_stale = [p \in Procs |-> FALSE]

NextReorg ==
    \/ RunGranularMigrationSkip
    \/ RunGranularMigration
    \/ \E step \in {"create_phase", "create_workstream"} : RunGranularMigrationFails(step)

(***************************************************************************)
(* Properties of the reorganizer                                           *)
(***************************************************************************)

\* The last call of run_granular_migration applied its plan and committed it
Applied == reorg_result = "True" /\ NeedsMigration(pre_tasks)

\* Following parent_task from id reaches a Phase row within `fuel` steps
RECURSIVE ChainEndsAtPhase(_, _, _)
ChainEndsAtPhase(tbl, id, fuel) ==
    IF id \notin Ids(tbl) \/ fuel = 0 THEN FALSE
    ELSE IF id.k = "phase" THEN TRUE
    ELSE ChainEndsAtPhase(tbl, tbl[id].parent_task, fuel - 1)

UnderPhase(tbl, t) == ChainEndsAtPhase(tbl, t, Cardinality(Ids(tbl)) + 1)

\* C2: after the reorganizer has applied its plan (no step having raised),
\* every task of the Store that is not a Phase, whatever its status, has a
\* parent_task chain that ends at a Phase: none has a null or dangling parent.
C2_EveryTaskUnderPhase ==
    (Applied /\ failed_steps = {}) =>
        \A t \in Ids(db_tasks) : t.k # "phase" => UnderPhase(db_tasks, t)

Children(tbl, w) == {t \in Ids(tbl) : tbl[t].parent_task = w}

\* C3: after a reorganization in which no step raised, every root_* Workstream
\* row of the Store has at least one task whose parent_task is that Workstream.
C3_NoEmptyWorkstream ==
    failed_steps = {} =>
        \A w \in Ids(db_tasks) : w.k = "root" => Children(db_tasks, w) # {}

\* C7: when a step of the apply phase raised (creating a phase, inserting a
\* workstream, or migrating a task), the call returned False and the Store
\* holds exactly the task graph it held before the call.
C7_AtomicOnFailure ==
    failed_steps # {} => (reorg_result = "False" /\ db_tasks = pre_tasks)

\* The parent named an existing regular (neither phase_ nor root_) task
RegularExistingParent(tbl, t) ==
    tbl[t].parent_task \in Ids(tbl) /\ ~IsSynthetic(tbl[t].parent_task)

\* C8: after a call of the reorganizer, a task whose parent_task named an
\* existing regular task before the call has the same parent_task, and a task
\* whose parent_task changed had a null, synthetic or missing parent before
\* and is now the child of a Workstream.
C8_HierarchyPreserved ==
    \A t \in Ids(pre_tasks) :
       /\ t \in Ids(db_tasks)
       /\ RegularExistingParent(pre_tasks, t) =>
              db_tasks[t].parent_task = pre_tasks[t].parent_task
       /\ db_tasks[t].parent_task # pre_tasks[t].parent_task =>
              /\ pre_tasks[t].parent_task \notin Ids(pre_tasks) \/ IsSynthetic(pre_tasks[t].parent_task)
              /\ db_tasks[t].parent_task.k = "root"

\* A committed reorganization that visited a task with an existing regular
\* parent and left it there, and repointed another task to its Workstream
C8_Witness ==
    /\ Applied
    /\ \E t \in Ids(pre_tasks) :
          /\ RegularExistingParent(pre_tasks, t)
          /\ db_tasks[t].notes # pre_tasks[t].notes
          /\ db_tasks[t].parent_task = pre_tasks[t].parent_task
    /\ \E t \in Ids(pre_tasks) :
          /\ pre_tasks[t].parent_task = MissingId
          /\ db_tasks[t].parent_task.k = "root"

\* Scenario A in small: a flat legacy task set (no parent, no dependency)
\* with completed, in-progress and pending tasks, the first one about the
\* database schema
FlatMixed(tbl) ==
    /\ \A t \in Ids(tbl) :
          /\ t.k = "task"
          /\ tbl[t].parent_task = NullId
          /\ tbl[t].depends_on_tasks = {}
          /\ tbl[t].status \in {"completed", "in_progress", "pending"}
    /\ \A st \in {"completed", "in_progress", "pending"} :
          \E t \in Ids(tbl) : tbl[t].status = st

PhasesIn(tbl) == {id \in Ids(tbl) : id.k = "phase"}

\* C24: after a successful reorganization of a flat task set that has
\* completed, in-progress and pending tasks (Scenario A), exactly the four
\* canonical phases exist in the Store.
C24_FourCanonicalPhases ==
    (Applied /\ failed_steps = {} /\ FlatMixed(pre_tasks)) =>
        PhasesIn(db_tasks) = {PhaseId(PhaseOrder[i]) : i \in 1..Len(PhaseOrder)}

\* Two regular tasks joined by a parent/child or a dependency edge
Linked(tbl, t, u) ==
    \/ tbl[u].parent_task = t
    \/ tbl[t].parent_task = u
    \/ u \in tbl[t].depends_on_tasks
    \/ t \in tbl[u].depends_on_tasks

\* C32: any two regular tasks of the planner's input that are linked by a
\* parent/child edge or by a dependency edge are in the same cluster.
C32_ClustersAreConnected ==
    Applied =>
       \E clusters \in {BuildTaskClusters(pre_tasks, InOrder(ActiveTasks(pre_tasks), 1))} :
          \A t, u \in ActiveTasks(pre_tasks) :
             Linked(pre_tasks, t, u) =>
                \E i \in 1..Len(clusters) : t \in clusters[i] /\ u \in clusters[i]

\* C37: reorganization never deletes a task and never changes the status,
\* the dependencies or the descriptive columns of a task that existed
\* before; on those rows it writes parent_task and notes only.
C37_ReorgFrame ==
    [][\A t \in Ids(db_tasks) :
          /\ t \in Ids(db_tasks')
          /\ db_tasks'[t].status = db_tasks[t].status
          /\ db_tasks'[t].depends_on_tasks = db_tasks[t].depends_on_tasks
          /\ db_tasks'[t].topic = db_tasks[t].topic]_vars

\* A committed run moved a task that has a dependency and is not pending
\* under its workstream and annotated it
C37_Witness ==
    /\ Applied
    /\ \E t \in Ids(pre_tasks) :
          /\ pre_tasks[t].depends_on_tasks # {}
          /\ pre_tasks[t].status = "in_progress"
          /\ db_tasks[t].parent_task # pre_tasks[t].parent_task
          /\ db_tasks[t].notes = pre_tasks[t].notes + 1
          /\ db_tasks[t].depends_on_tasks = pre_tasks[t].depends_on_tasks
          /\ db_tasks[t].status = "in_progress"

\* Every phase row after phase 1 lists the previous phase in depends_on_tasks
DeclaresPrevious(tbl) ==
    \A n \in 2..Len(PhaseOrder) :
        PhaseId(PhaseOrder[n]) \in Ids(tbl) =>
            PhaseId(PhaseOrder[n - 1]) \in tbl[PhaseId(PhaseOrder[n])].depends_on_tasks

\* C28: in every Store state each existing phase N (N > 1) has the id of
\* phase N-1 in its depends_on_tasks, whether create_phase made the row or
\* the reorganizer did; here for the phases a reorganization adds to a Store
\* that held none that broke the rule.
C28_PhaseDependsOnPrevious ==
    DeclaresPrevious(pre_tasks) => DeclaresPrevious(db_tasks)

(***************************************************************************)
(* phase_management_tools.py                                               *)
(***************************************************************************)

\* The values of the phase_type argument: the four documented ones, a string
\* every phase_id contains, a string no phase_id contains, and no argument
PhaseTypes == {"foundation", "intelligence", "coordination", "optimization",
               "phase", "bogus", ""}

\* phase_type in phase["phase_id"]: Python substring test
TypeInPhaseId(phase_type, phase_id) ==
    \/ phase_type = "phase"
    \/ phase_type = "foundation" /\ phase_id = "phase_1_foundation"
    \/ phase_type = "intelligence" /\ phase_id = "phase_2_intelligence"
    \/ phase_type = "coordination" /\ phase_id = "phase_3_coordination"
    \/ phase_type = "optimization" /\ phase_id = "phase_4_optimization"

\* create_phase: the first phase definition whose phase_id contains phase_type,
\* as its order; 0 when there is none
PhaseDefFor(phase_type) ==
    LET hits == {i \in 1..Len(PhaseOrder) : TypeInPhaseId(phase_type, PhaseOrder[i])} IN
    IF hits = {} THEN 0 ELSE CHOOSE i \in hits : \A j \in hits : i <= j

\* _get_phase_hierarchy: "prerequisites" of the phase of that order
Prerequisites(order) == IF order > 1 THEN {PhaseId(PhaseOrder[order - 1])} ELSE {}

\* _analyze_phase_completion: root_tasks, the non-cancelled direct children
RootTasksOf(tbl, phase_id) ==
    {t \in Ids(tbl) : tbl[t].parent_task = phase_id /\ tbl[t].status # "cancelled"}

\* _analyze_root_task_completion: the recursive task_tree query
SubtasksOf(tbl, root_task_id) ==
    LET live == {t \in Ids(tbl) : tbl[t].status # "cancelled"}
        edges == {e \in (live \cup {root_task_id}) \X live : tbl[e[2]].parent_task = e[1]}
    IN  Closure({root_task_id}, edges) \ {root_task_id}

\* _analyze_root_task_completion: can_complete
CanComplete(tbl, root_task_id) ==
    \A t \in SubtasksOf(tbl, root_task_id) : tbl[t].status = "completed"

\* _analyze_phase_completion: can_advance
CanAdvance(tbl, phase_id) ==
    /\ RootTasksOf(tbl, phase_id) # {}
    /\ \A r \in RootTasksOf(tbl, phase_id) :
          CanComplete(tbl, r) /\ tbl[r].status = "completed"

\* round(part / whole * 100, 1), in tenths of a percent
RoundedPercent(part, whole) == (2000 * part + whole) \div (2 * whole)

\* _analyze_phase_completion: completion_percentage, in tenths of a percent:
\* the share of root tasks that are completed with all their subtasks
PhaseCompletionPercentage(tbl, phase_id) ==
    LET root_tasks == RootTasksOf(tbl, phase_id)
        completed_root_tasks ==
            {r \in root_tasks : CanComplete(tbl, r) /\ tbl[r].status = "completed"}
    IN  IF root_tasks = {} THEN 0
        ELSE RoundedPercent(Cardinality(completed_root_tasks), Cardinality(root_tasks))

\* create_phase: phase_data
PhaseData(order) ==
    [status |-> "pending", parent_task |-> NullId,
     depends_on_tasks |-> Prerequisites(order), notes |-> 1, topic |-> "plain"]

\* A table with one more row, or one row replaced
WithRow(tbl, id, row) ==
    [x \in Ids(tbl) \cup {id} |-> IF x = id THEN row ELSE tbl[x]]

NoCall == [op |-> "none", id |-> NullId, force |-> FALSE]

\* The token argument of a call that carries none
NoToken == "none"

\* What an invocation leaves behind: the token its handler was given, the
\* number of log_audit records the handler wrote, and whether it returned
\* Unauthorized or the MigrationInProgress error
\* text is the opening of the reply where a property reads it ("" elsewhere)
NoToolCall ==
    [tool |-> "none", token |-> NoToken, audits |-> 0, result |-> "none", text |-> ""]
Handled(tool, token, audits) ==
    [tool |-> tool, token |-> token, audits |-> audits, result |-> "handled", text |-> ""]
Unauthorized(tool, token) ==
    [tool |-> tool, token |-> token, audits |-> 0, result |-> "Unauthorized", text |-> ""]
Gated(tool) ==
    [tool |-> tool, token |-> NoToken, audits |-> 0, result |-> "MigrationInProgress",
     text |-> ""]

\* The keys of the dict _analyze_phase_completion returns (the same on its
\* empty and on its regular return)
CompletionKeys ==
    {"phase_id", "total_root_tasks", "completed_root_tasks", "completion_percentage",
     "can_advance", "blocking_root_tasks", "root_task_details", "status"}

\* The keys of that dict the refusal message of create_phase reads
RefusalMessageKeys == {"completion_percentage", "blocking_tasks"}

\* The reply of create_phase on a prerequisite that cannot advance: the
\* message "Cannot create phase ... Prerequisite phase ... is only ..%
\* complete" when the f-string can be built; a missing key raises KeyError,
\* which the handler's except Exception turns into "Unexpected error
\* creating phase: ..."
CreatePhaseRefusalText ==
    IF RefusalMessageKeys \subseteq CompletionKeys
    THEN "Cannot create phase" ELSE "Unexpected error creating phase"

\* The dispatcher's migration gate: a write tool called while
\* g.migration_in_progress is set is rejected before its handler runs
WriteToolGatedNever(flag) == FALSE
WriteToolGated(flag) == flag

Tokens == {"admin", "agent"}

\* core/auth: verify_token(token, "admin") accepts the admin token only
verify_tokenAny(token, role) == TRUE
verify_token(token, role) == token = role

\* The token argument of create_phase and advance_phase: the admin's, an
\* agent's, or missing
AdminToolTokens == Tokens \cup {NoToken}

\* view_phase_status takes any agent's token; get_agent_id knows Tokens only
ViewTokens == Tokens \cup {"unknown"}

\* The ids a caller passes as current_phase_id: a phase id, the id of a
\* regular task, or none (NullId)
PhaseIds == {PhaseId(PhaseOrder[i]) : i \in 1..Len(PhaseOrder)}
CallIds == PhaseIds \cup {TaskId("t1"), NullId}

\* create_phase without the admin token: "Unauthorized: Admin token required",
\* returned before anything else is done
CreatePhaseUnauthorized(token) ==
    /\ call = NoCall
    /\ ~WriteToolGated(migration_in_progress)
    /\ ~verify_token(token, "admin")
    /\ tool_call' = Unauthorized("create_phase", token)
    /\ UNCHANGED <<db_tasks, g_tasks, conn_tasks, call>>
    /\ UNCHANGED nonPhaseVars

\* create_phase refused before the database is opened: missing phase_type,
\* or a phase_type no phase definition matches
CreatePhaseRejected(token, phase_type) ==
    /\ call = NoCall
    /\ ~WriteToolGated(migration_in_progress)
    /\ verify_token(token, "admin")
    /\ tool_call' = Handled("create_phase", token, IF phase_type = "" THEN 0 ELSE 1)
    /\ phase_type = "" \/ PhaseDefFor(phase_type) = 0
    /\ UNCHANGED <<db_tasks, g_tasks, conn_tasks, call>>
    /\ UNCHANGED nonPhaseVars

\* create_phase by an admin for a phase whose row exists: "already exists"
CreatePhaseExists(token, phase_type) ==
    /\ call = NoCall
    /\ ~WriteToolGated(migration_in_progress)
    /\ verify_token(token, "admin")
    /\ tool_call' = Handled("create_phase", token, 1)
    /\ phase_type # "" /\ PhaseDefFor(phase_type) # 0
    /\ LET id == PhaseId(PhaseOrder[PhaseDefFor(phase_type)]) IN
         /\ id \in Ids(db_tasks)
         /\ UNCHANGED <<db_tasks, g_tasks, conn_tasks, call>>
    /\ UNCHANGED nonPhaseVars

\* create_phase by an admin when a prerequisite phase cannot advance: the
\* handler leaves through the refusal branch (building the message raises
\* KeyError 'blocking_tasks', the except branch rolls back); nothing is written
CreatePhaseRefused(token, phase_type) ==
    /\ call = NoCall
    /\ ~WriteToolGated(migration_in_progress)
    /\ verify_token(token, "admin")
    /\ tool_call' = [Handled("create_phase", token, 1) EXCEPT !.text = CreatePhaseRefusalText]
    /\ phase_type # "" /\ PhaseDefFor(phase_type) # 0
    /\ LET order == PhaseDefFor(phase_type)
           id == PhaseId(PhaseOrder[order])
       IN  /\ id \notin Ids(db_tasks)
           /\ \E prereq \in Prerequisites(order) : ~CanAdvance(db_tasks, prereq)
           /\ UNCHANGED <<db_tasks, g_tasks, conn_tasks, call>>
    /\ UNCHANGED nonPhaseVars

\* create_phase by an admin, through the INSERT and the update of g.tasks
\* that follows it; log_agent_action_to_db and conn.commit() are still to come
CreatePhaseWrite(token, phase_type) ==
    /\ call = NoCall
    /\ ~WriteToolGated(migration_in_progress)
    /\ verify_token(token, "admin")
    /\ tool_call' = Handled("create_phase", token, 1)
    /\ phase_type # "" /\ PhaseDefFor(phase_type) # 0
    /\ LET order == PhaseDefFor(phase_type)
           id == PhaseId(PhaseOrder[order])
       IN  /\ id \notin Ids(db_tasks)
           /\ \A prereq \in Prerequisites(order) : CanAdvance(db_tasks, prereq)
           /\ conn_tasks' = WithRow(db_tasks, id, PhaseData(order))
           /\ g_tasks' = WithRow(g_tasks, id, PhaseData(order))
           /\ call' = [op |-> "create_phase", id |-> id, force |-> FALSE]
    /\ UNCHANGED db_tasks
    /\ UNCHANGED nonPhaseVars

\* create_phase: log_agent_action_to_db and conn.commit() succeed
CreatePhaseCommit ==
    /\ call.op = "create_phase"
    /\ db_tasks' = conn_tasks
    /\ call' = NoCall
    /\ UNCHANGED <<g_tasks, conn_tasks>>
    /\ UNCHANGED tool_call
    /\ UNCHANGED nonPhaseVars

\* create_phase: log_agent_action_to_db or conn.commit() raises (sqlite3.Error);
\* the except branch calls conn.rollback()
CreatePhaseRollback ==
    /\ call.op = "create_phase"
    /\ conn_tasks' = db_tasks
    /\ call' = NoCall
    /\ UNCHANGED <<db_tasks, g_tasks>>
    /\ UNCHANGED tool_call
    /\ UNCHANGED nonPhaseVars

\* advance_phase without the admin token: "Unauthorized: Admin token
\* required", returned before anything else is done
AdvancePhaseUnauthorized(token) ==
    /\ call = NoCall
    /\ ~WriteToolGated(migration_in_progress)
    /\ ~verify_token(token, "admin")
    /\ tool_call' = Unauthorized("advance_phase", token)
    /\ UNCHANGED <<db_tasks, g_tasks, conn_tasks, call>>
    /\ UNCHANGED nonPhaseVars

\* advance_phase refused before the database is opened: no current_phase_id
AdvancePhaseRejected(token) ==
    /\ call = NoCall
    /\ ~WriteToolGated(migration_in_progress)
    /\ verify_token(token, "admin")
    /\ tool_call' = Handled("advance_phase", token, 0)
    /\ UNCHANGED <<db_tasks, g_tasks, conn_tasks, call>>
    /\ UNCHANGED nonPhaseVars

\* advance_phase by an admin: not force_advance and not can_advance
AdvancePhaseRefused(token, id) ==
    /\ call = NoCall
    /\ ~WriteToolGated(migration_in_progress)
    /\ verify_token(token, "admin")
    /\ tool_call' = Handled("advance_phase", token, 1)
    /\ id # NullId
    /\ ~CanAdvance(db_tasks, id)
    /\ UNCHANGED <<db_tasks, g_tasks, conn_tasks, call>>
    /\ UNCHANGED nonPhaseVars

\* advance_phase by an admin, past the completion gate, for an id that names
\* no row: cursor.fetchone()["notes"] raises TypeError, the handler rolls back
AdvancePhaseNoRow(token, id, force) ==
    /\ call = NoCall
    /\ ~WriteToolGated(migration_in_progress)
    /\ verify_token(token, "admin")
    /\ tool_call' = Handled("advance_phase", token, 1)
    /\ id # NullId
    /\ force \/ CanAdvance(db_tasks, id)
    /\ id \notin Ids(db_tasks)
    /\ UNCHANGED <<db_tasks, g_tasks, conn_tasks, call>>
    /\ UNCHANGED nonPhaseVars

\* advance_phase: current_notes after json.loads(notes or "[]") and the append
AdvancedNotes(notes) == (IF notes = NullNotes THEN 0 ELSE notes) + 1

\* advance_phase by an admin, through the UPDATE and the update of g.tasks
\* that follows it; log_agent_action_to_db and conn.commit() are still to come
AdvancePhaseWrite(token, id, force) ==
    /\ call = NoCall
    /\ ~WriteToolGated(migration_in_progress)
    /\ verify_token(token, "admin")
    /\ tool_call' = Handled("advance_phase", token, 1)
    /\ id # NullId
    /\ force \/ CanAdvance(db_tasks, id)
    /\ id \in Ids(db_tasks)
    /\ db_tasks[id].notes < MaxNotes
    /\ conn_tasks' = [db_tasks EXCEPT ![id].status = "completed",
                                      ![id].notes = AdvancedNotes(@)]
    /\ g_tasks' = IF id \in Ids(g_tasks)
                  THEN [g_tasks EXCEPT ![id].status = "completed",
                                       ![id].notes = AdvancedNotes(db_tasks[id].notes)]
                  ELSE g_tasks
    /\ call' = [op |-> "advance_phase", id |-> id, force |-> force]
    /\ UNCHANGED db_tasks
    /\ UNCHANGED nonPhaseVars

\* advance_phase: log_agent_action_to_db and conn.commit() succeed
AdvancePhaseCommit ==
    /\ call.op = "advance_phase"
    /\ db_tasks' = conn_tasks
    /\ call' = NoCall
    /\ UNCHANGED <<g_tasks, conn_tasks>>
    /\ UNCHANGED tool_call
    /\ UNCHANGED nonPhaseVars

\* advance_phase: a statement after the update of g.tasks raises; the except
\* branch calls conn.rollback()
AdvancePhaseRollback ==
    /\ call.op = "advance_phase"
    /\ conn_tasks' = db_tasks
    /\ call' = NoCall
    /\ UNCHANGED <<db_tasks, g_tasks>>
    /\ UNCHANGED tool_call
    /\ UNCHANGED nonPhaseVars

\* create_phase called while a migration is in progress: the dispatcher
\* returns MigrationInProgress, create_phase_tool_impl does not run
CreatePhaseGated ==
    /\ call = NoCall
    /\ WriteToolGated(migration_in_progress)
    /\ tool_call' = Gated("create_phase")
    /\ UNCHANGED <<db_tasks, g_tasks, conn_tasks, call>>
    /\ UNCHANGED nonPhaseVars

\* advance_phase called while a migration is in progress: the dispatcher
\* returns MigrationInProgress, advance_phase_tool_impl does not run
AdvancePhaseGated ==
    /\ call = NoCall
    /\ WriteToolGated(migration_in_progress)
    /\ tool_call' = Gated("advance_phase")
    /\ UNCHANGED <<db_tasks, g_tasks, conn_tasks, call>>
    /\ UNCHANGED nonPhaseVars

\* view_phase_status with a token get_agent_id does not know: Unauthorized,
\* returned before log_audit
ViewPhaseStatusUnauthorized(token) ==
    /\ call = NoCall
    /\ token \notin Tokens
    /\ tool_call' = Unauthorized("view_phase_status", token)
    /\ UNCHANGED <<db_tasks, g_tasks, conn_tasks, call>>
    /\ UNCHANGED nonPhaseVars

\* view_phase_status by a known agent: log_audit, then the report, "Phase not
\* found" or the error text of the except branch; the handler only reads
ViewPhaseStatus(token) ==
    /\ call = NoCall
    /\ token \in Tokens
    /\ tool_call' = Handled("view_phase_status", token, 1)
    /\ UNCHANGED <<db_tasks, g_tasks, conn_tasks, call>>
    /\ UNCHANGED nonPhaseVars

\* The table run_granular_migration commits when no statement raises
Reorganized(tbl) ==
    IF ~NeedsMigration(tbl) THEN tbl
    ELSE LET plan == PlanStructure(tbl)
             with_phases == CreatePhases(tbl, PhasesToCreate(plan), PlanMapping(tbl))
             with_roots == CreateWorkstreams(with_phases, plan)
         IN  MigrateTasks(with_roots, plan)

\* Title keywords of the tasks in the store the phase tools are called on:
\* the phase tools read parent_task and status, never the title
PhaseStoreTopics == {"plain"}

\* The server starts on a new database or on a legacy one that the startup
\* migration has reorganized; the mirror is loaded from the Store
InitPhase ==
    /\ \E n \in 0..MaxTasks :
         \E st \in [RegularTasks(n) -> Statuses \ {"in_progress"}],
            par \in [RegularTasks(n) -> RegularTasks(n) \cup {NullId}],
            tp \in [RegularTasks(n) -> PhaseStoreTopics] :
              /\ \A t \in RegularTasks(n) : par[t] \in EarlierTasks(t) \cup {NullId}
              /\ db_tasks = Reorganized([t \in RegularTasks(n) |->
                                 LegacyRow(st, par, NullId, NullId, tp, t)])
    /\ g_tasks = db_tasks
    /\ conn_tasks = db_tasks
    /\ call = NoCall
    /\ tool_call = NoToolCall

\* No tool has been called; the mirror is not loaded
PhaseIdle ==
    /\ g_tasks = <<>>
    /\ conn_tasks = <<>>
    /\ call = NoCall
    /\ tool_call = NoToolCall

ReorgHistIdle ==
    /\ pre_tasks = <<>>
    /\ txn_tasks = <<>>
    /\ phase_mapping = NoMapping
    /\ phase_structure = {}
    /\ reorg_runs = 0
    /\ reorg_result = "none"
    /\ failed_steps = {}

NextPhase ==
    \/ \E token \in AdminToolTokens : CreatePhaseUnauthorized(token)
    \/ \E token \in AdminToolTokens, phase_type \in PhaseTypes :
          \/ CreatePhaseRejected(token, phase_type)
          \/ CreatePhaseExists(token, phase_type)
          \/ CreatePhaseRefused(token, phase_type)
          \/ CreatePhaseWrite(token, phase_type)
    \/ CreatePhaseCommit
    \/ CreatePhaseRollback
    \/ \E token \in AdminToolTokens : AdvancePhaseUnauthorized(token)
    \/ \E token \in AdminToolTokens : AdvancePhaseRejected(token)
    \/ \E token \in AdminToolTokens, id \in CallIds : AdvancePhaseRefused(token, id)
    \/ \E token \in AdminToolTokens, id \in CallIds, force \in BOOLEAN :
          \/ AdvancePhaseNoRow(token, id, force)
          \/ AdvancePhaseWrite(token, id, force)
    \/ AdvancePhaseCommit
    \/ AdvancePhaseRollback
    \/ CreatePhaseGated
    \/ AdvancePhaseGated
    \/ \E token \in ViewTokens :
          \/ ViewPhaseStatusUnauthorized(token)
          \/ ViewPhaseStatus(token)

(***************************************************************************)
(* Properties of the phase management tools                                *)
(***************************************************************************)

\* This step commits a create_phase call: its phase row is now in the Store
CreatePhaseCommitted ==
    call.op = "create_phase" /\ call' = NoCall /\ call.id \in Ids(db_tasks')

\* C4: a create_phase call puts the row of phase N+1 into the Store only when
\* phase N, the phase it depends on, exists there with status completed.
C4_LinearCreation ==
    [][CreatePhaseCommitted =>
          \A prereq \in db_tasks'[call.id].depends_on_tasks :
             prereq \in Ids(db_tasks') /\ db_tasks'[prereq].status = "completed"]_vars

\* Every task below id in the parent_task relation, whatever its status
Descendants(tbl, id) ==
    Closure({id}, {e \in (Ids(tbl) \cup {id}) \X Ids(tbl) : tbl[e[2]].parent_task = e[1]}) \ {id}

\* C5: an advance_phase call on a phase without force that got past the
\* completion gate (it was not refused) found every descendant of the phase
\* that is not cancelled in status completed.
C5_AdvanceGate ==
    (call.op = "advance_phase" /\ ~call.force /\ call.id.k = "phase") =>
        \A t \in Descendants(db_tasks, call.id) :
           db_tasks[t].status # "cancelled" => db_tasks[t].status = "completed"

\* C6: in every state, during a call or after it, every phase the mirror
\* holds is a committed row of the Store with the same status and notes.
C6_MirrorOnlyCommitted ==
    \A id \in Ids(g_tasks) :
       id.k = "phase" =>
          /\ id \in Ids(db_tasks)
          /\ g_tasks[id].status = db_tasks[id].status
          /\ g_tasks[id].notes = db_tasks[id].notes

\* The task ids the records of an advance_phase call carry:
\* log_audit(requesting_agent_id, "advance_phase", {"current_phase_id": ...,
\* "force": ...}) and log_agent_action_to_db(cursor, requesting_agent_id,
\* "advance_phase", current_phase_id, {"completion_percentage": ...})
AdvanceAuditNames(c) == {c.id}

\* The descendants of a phase that keep it from completing
BlockingDescendants(tbl, id) ==
    {t \in Descendants(tbl, id) : tbl[t].status \notin {"completed", "cancelled"}}

\* This step commits a forced advance_phase call on a phase with blocking
\* descendants
ForcedCommit ==
    /\ call.op = "advance_phase" /\ call.force /\ call.id.k = "phase"
    /\ BlockingDescendants(db_tasks, call.id) # {}
    /\ call' = NoCall
    /\ db_tasks' = conn_tasks

\* C26: advance_phase(P) with force=true marks P completed although
\* descendants are not completed, and the audit entry it writes names those
\* blocking descendants.
C26_ForcedAdvanceAudited ==
    [][ForcedCommit =>
          /\ db_tasks'[call.id].status = "completed"
          /\ BlockingDescendants(db_tasks, call.id) \subseteq AdvanceAuditNames(call)]_vars

\* The latest invocation is a create_phase or advance_phase call whose
\* handler ran with a missing or non-admin token
NonAdminCall(tc) ==
    /\ tc.tool \in {"create_phase", "advance_phase"}
    /\ tc.result # "MigrationInProgress"
    /\ tc.token # "admin"

\* C27: create_phase and advance_phase are admin-only: a call with a missing
\* or non-admin token is rejected as Unauthorized, and no step taken for it
\* changes the Store, the handler's open transaction or the in-memory mirror.
C27_AdminOnly ==
    [][NonAdminCall(tool_call') =>
          /\ tool_call'.result = "Unauthorized"
          /\ UNCHANGED <<db_tasks, conn_tasks, g_tasks>>]_vars

\* A call without a token has been rejected as Unauthorized after a phase
\* was created and completed
C27_Witness ==
    /\ NonAdminCall(tool_call)
    /\ tool_call.result = "Unauthorized"
    /\ tool_call.token = NoToken
    /\ \E id \in Ids(db_tasks) : id.k = "phase" /\ db_tasks[id].status = "completed"
    /\ g_tasks # db_tasks

\* The phase row is completed and carries the completion note advance_phase
\* appended to the note it was created with
MarkedByAdvance(tbl, id) ==
    /\ id \in Ids(tbl)
    /\ tbl[id].status = "completed"
    /\ tbl[id].notes > 1

\* C38: a create_phase call refused because the prerequisite phase is not
\* complete answers with the linear-progression message naming the
\* prerequisite and its completion, not with an unexpected-error reply.
C38_RefusalIsConflict ==
    [][\A phase_type \in PhaseTypes :
          CreatePhaseRefused("admin", phase_type) =>
             tool_call'.text = "Cannot create phase"]_vars

\* C34: once advance_phase has marked phase N completed, by the rollup check
\* or with force, an admin's create_phase call for phase N+1, which does not
\* exist yet, is not refused.
C34_CreateAfterAdvance ==
    [][\A phase_type \in PhaseTypes :
          (/\ PhaseDefFor(phase_type) > 1
           /\ MarkedByAdvance(db_tasks, PhaseId(PhaseOrder[PhaseDefFor(phase_type) - 1])))
          => ~CreatePhaseRefused("admin", phase_type)]_vars

\* The status column of a table
StatusOf(tbl) == [t \in Ids(tbl) |-> tbl[t].status]

\* This step belongs to an advance_phase call whose current_phase_id is not
\* the id of a Phase
AdvancesNonPhase ==
    \/ call.op = "advance_phase" /\ call.id.k # "phase"
    \/ call'.op = "advance_phase" /\ call'.id.k # "phase"

\* C35: advance_phase changes the status of Phase nodes only: a call whose
\* current_phase_id names a regular task, a Workstream or no row changes no
\* task's status in the Store or in the mirror, with or without force.
C35_AdvanceOnlyPhases ==
    [][AdvancesNonPhase =>
          /\ StatusOf(db_tasks') = StatusOf(db_tasks)
          /\ StatusOf(g_tasks') = StatusOf(g_tasks)]_vars

\* The rollup as stated: W.completion = c/n over the non-cancelled
\* descendants of W (1 when there are none), in tenths of a percent
StatedWorkstreamCompletion(tbl, w) ==
    LET D == {d \in Descendants(tbl, w) : tbl[d].status # "cancelled"} IN
    IF D = {} THEN 1000
    ELSE RoundedPercent(Cardinality({d \in D : tbl[d].status = "completed"}), Cardinality(D))

RECURSIVE SumCompletion(_, _)
SumCompletion(tbl, ws) ==
    IF ws = {} THEN 0
    ELSE LET w == CHOOSE x \in ws : TRUE
         IN  StatedWorkstreamCompletion(tbl, w) + SumCompletion(tbl, ws \ {w})

\* The workstream children of a phase
WorkstreamsOf(tbl, phase_id) ==
    {w \in Ids(tbl) : tbl[w].parent_task = phase_id /\ tbl[w].status # "cancelled"}

\* C36: the completion reported for a Phase is the mean of its workstreams'
\* completion fractions, and can_advance holds iff every workstream is
\* completed (vacuously for a phase with no workstreams); checked on what
\* view_phase_status computes for the phases of the Store.
C36_RollupIsMean ==
    (tool_call.tool = "view_phase_status" /\ tool_call.result = "handled") =>
       \A p \in Ids(db_tasks) :
          p.k = "phase" =>
             LET ws == WorkstreamsOf(db_tasks, p) IN
             /\ CanAdvance(db_tasks, p) <=>
                   \A w \in ws : StatedWorkstreamCompletion(db_tasks, w) = 1000
             /\ ws # {} =>
                   \E mean \in {(2 * SumCompletion(db_tasks, ws) + Cardinality(ws))
                                    \div (2 * Cardinality(ws))} :
                      PhaseCompletionPercentage(db_tasks, p) \in (mean - 1)..(mean + 1)

\* This step is an invocation of tool
Invokes(tool) == tool_call' # tool_call /\ tool_call'.tool = tool

\* C16: every invocation of create_phase, advance_phase or view_phase_status
\* that reaches its handler writes exactly one audit record, whatever the
\* outcome (success, refusal, Unauthorized, missing argument, internal error).
C16_OneAuditPerCall ==
    tool_call.result \in {"handled", "Unauthorized"} => tool_call.audits = 1

\* The latest call was create_phase or advance_phase, made while a migration
\* was in progress
WriteToolDuringMigration ==
    /\ migration_in_progress
    /\ tool_call.tool \in {"create_phase", "advance_phase"}

\* C17: a create_phase or advance_phase call made while the
\* migration-in-progress flag is set returns MigrationInProgress, and no step
\* taken while the flag is set writes the Store or updates the mirror.
C17_WriteToolsGated ==
    [][/\ migration_in_progress =>
            /\ db_tasks' = db_tasks
            /\ conn_tasks' = conn_tasks
            /\ g_tasks' = g_tasks
       /\ (migration_in_progress /\ (Invokes("create_phase") \/ Invokes("advance_phase"))) =>
            tool_call'.result = "MigrationInProgress"]_vars

C17_Witness ==
    /\ WriteToolDuringMigration
    /\ tool_call.result = "MigrationInProgress"
    /\ g_tasks = db_tasks

(***************************************************************************)
(* migration_manager.py: check_and_migrate                                 *)
(*                                                                         *)
(* self.conn comes from get_db_connection() and is used the way every      *)
(* handler of the repository uses its connection: writes stay in the       *)
(* connection's transaction until conn.commit(), and a connection closed   *)
(* before commit loses them.                                               *)
(***************************************************************************)

CURRENT_VERSION == "2.0.0"
NoVersion == "None"      \* _get_current_version returned None

\* _is_legacy_v1: no task_id LIKE 'phase_%', with or without code_language
IsLegacyV1(tbl, code) ==
    LET phase_count == Cardinality({id \in Ids(tbl) : id.k = "phase"})
    IN  IF phase_count = 0 /\ code THEN TRUE
        ELSE IF phase_count = 0 THEN TRUE
        ELSE FALSE

\* _get_current_version: the row with the latest applied_at, else the legacy
\* indicators
GetCurrentVersion(rows, tbl, code) ==
    IF rows # <<>> THEN rows[Len(rows)]
    ELSE IF IsLegacyV1(tbl, code) THEN "1.0.0"
    ELSE NoVersion

\* _get_pending_migrations
GetPendingMigrations(current) ==
    IF current = NoVersion THEN <<"1.1.0", "2.0.0">>
    ELSE IF current = "1.0.0" THEN <<"1.1.0", "2.0.0">>
    ELSE IF current = "1.1.0" THEN <<"2.0.0">>
    ELSE <<>>

\* _record_migration: INSERT INTO schema_migrations through self.cursor
RecordMigration(pending, version) == Append(pending, version)

\* self.conn.close(): what the connection wrote and did not commit is gone
CloseConnection(pending) == <<>>

\* add_code_support.migrate_database: adds the code-support columns
AddCodeSupport(code) == TRUE

NoBackup == [taken |-> FALSE, rows |-> <<>>, tasks |-> <<>>, code |-> FALSE]

\* _create_backup: self.conn.backup() copies the committed database
CreateBackup == [taken |-> TRUE, rows |-> schema_migrations,
                 tasks |-> db_tasks, code |-> has_code_support]

\* check_and_migrate may be called: at startup, or again by a later startup
Startable ==
    /\ mig_pc \in {"idle", "returned", "exited"}
    /\ mig_runs < MaxMigRuns
    /\ reorg_runs < MaxRuns

\* A call starts with an empty history, in a process that is running
BeginCall ==
    /\ mig_runs' = mig_runs + 1
    /\ exit_status' = <<>>
    /\ migrators_run' = <<>>
    /\ failed_version' = NoVersion
    /\ current_version' = NoVersion
    /\ backup' = NoBackup

\* `return result` out of _do_migration and check_and_migrate: the finally
\* clauses close self.conn, clear g.migration_in_progress and release the lock
ReturnsFlagKept(result) ==
    /\ mig_result' = result
    /\ mig_pc' = "returned"
    /\ conn_migrations' = CloseConnection(conn_migrations)
    /\ migrations_to_run' = <<>>
    /\ migration_in_progress' = migration_in_progress
    /\ lock_acquired' = FALSE
Returns(result) ==
    /\ mig_result' = result
    /\ mig_pc' = "returned"
    /\ conn_migrations' = CloseConnection(conn_migrations)
    /\ migrations_to_run' = <<>>
    /\ migration_in_progress' = FALSE
    /\ lock_acquired' = FALSE

\* check_and_migrate: migration_lock raises "Failed to acquire migration
\* lock" because another process holds it: return False
CheckAndMigrateLockBusy ==
    /\ Startable
    /\ BeginCall
    /\ mig_result' = "False"
    /\ mig_pc' = "returned"
    /\ UNCHANGED <<mig_config, schema_migrations, conn_migrations,
                   has_migration_table, has_code_support, migrations_to_run,
                   migration_in_progress, lock_acquired>>
    /\ UNCHANGED <<reorgVars, nonMigExitVars>>

\* check_and_migrate: the lock is acquired and g.migration_in_progress set
CheckAndMigrateAcquire ==
    /\ Startable
    /\ BeginCall
    /\ mig_result' = "none"
    /\ mig_pc' = "locked"
    /\ lock_acquired' = TRUE
    /\ migration_in_progress' = TRUE
    /\ UNCHANGED <<mig_config, schema_migrations, conn_migrations,
                   has_migration_table, has_code_support, migrations_to_run>>
    /\ UNCHANGED <<reorgVars, nonMigExitVars>>

\* _do_migration: `if not migration_config.get('auto_migrate', True)`
SkipsMigrationNever(config) == FALSE
SkipsMigration(config) == ~config.auto_migrate

\* _do_migration: auto_migrate is off: return True before opening the store
DoMigrationDisabled ==
    /\ mig_pc = "locked"
    /\ SkipsMigration(mig_config)
    /\ Returns("True")
    /\ UNCHANGED <<mig_config, schema_migrations, has_migration_table,
                   has_code_support, backup, migrators_run, failed_version,
                   current_version, mig_runs>>
    /\ UNCHANGED <<reorgVars, nonMigVars>>

\* _do_migration: the store is at CURRENT_VERSION, or nothing is pending
DoMigrationUpToDate ==
    /\ mig_pc = "locked"
    /\ ~SkipsMigration(mig_config)
    /\ \E cur \in {GetCurrentVersion(schema_migrations, db_tasks, has_code_support)} :
         /\ cur = CURRENT_VERSION \/ GetPendingMigrations(cur) = <<>>
         /\ current_version' = cur
    /\ has_migration_table' = TRUE
    /\ Returns("True")
    /\ UNCHANGED <<mig_config, schema_migrations, has_code_support, backup,
                   migrators_run, failed_version, mig_runs>>
    /\ UNCHANGED <<reorgVars, nonMigVars>>

\* The status of `sys.exit(0)  # Exit immediately when user cancels`; cli_main
\* catches SystemExit and exits again with the same code
DeclineExitStatus == <<0>>

\* _do_migration: interactive on a terminal and the user does not confirm:
\* sys.exit(0); the finally clauses run on the way out
DoMigrationDeclined ==
    /\ mig_pc = "locked"
    /\ ~SkipsMigration(mig_config)
    /\ mig_config.interactive
    /\ \E cur \in {GetCurrentVersion(schema_migrations, db_tasks, has_code_support)} :
         /\ cur # CURRENT_VERSION
         /\ GetPendingMigrations(cur) # <<>>
         /\ current_version' = cur
    /\ has_migration_table' = TRUE
    /\ mig_result' = "exit"
    /\ mig_pc' = "exited"
    /\ exit_status' = DeclineExitStatus
    /\ conn_migrations' = CloseConnection(conn_migrations)
    /\ migrations_to_run' = <<>>
    /\ migration_in_progress' = FALSE
    /\ lock_acquired' = FALSE
    /\ UNCHANGED <<mig_config, schema_migrations, has_code_support, backup,
                   migrators_run, failed_version, mig_runs>>
    /\ UNCHANGED <<reorgVars, nonMigExitVars>>

\* _do_migration: migrations are pending and the run goes ahead (not
\* interactive, no terminal, or the user confirmed): backup when auto_backup
DoMigrationBegin ==
    /\ mig_pc = "locked"
    /\ ~SkipsMigration(mig_config)
    /\ \E cur \in {GetCurrentVersion(schema_migrations, db_tasks, has_code_support)} :
         /\ cur # CURRENT_VERSION
         /\ GetPendingMigrations(cur) # <<>>
         /\ current_version' = cur
         /\ migrations_to_run' = GetPendingMigrations(cur)
    /\ has_migration_table' = TRUE
    /\ backup' = IF mig_config.auto_backup THEN CreateBackup ELSE NoBackup
    /\ mig_pc' = "migrating"
    /\ UNCHANGED <<mig_config, schema_migrations, conn_migrations,
                   has_code_support, migrators_run, failed_version, mig_result,
                   migration_in_progress, lock_acquired, mig_runs>>
    /\ UNCHANGED <<reorgVars, nonMigVars>>

\* The except branch of the loop: _ask_restore_backup when a backup was
\* taken, _restore_backup when the answer is yes, then return False
FailureReturns(version, restore, tasks_left) ==
    /\ migrators_run' = Append(migrators_run, version)
    /\ failed_version' = version
    /\ IF backup.taken /\ restore
       THEN /\ schema_migrations' = backup.rows
            /\ db_tasks' = backup.tasks
            /\ has_code_support' = backup.code
       ELSE /\ db_tasks' = tasks_left
            /\ UNCHANGED <<schema_migrations, has_code_support>>
    /\ Returns("False")
    /\ UNCHANGED <<mig_config, has_migration_table, backup, current_version,
                   mig_runs>>

\* One turn of the loop for 1.1.0: _migrate_to_1_1_0, then _record_migration
MigrateTo110 ==
    /\ mig_pc = "migrating"
    /\ migrations_to_run # <<>>
    /\ Head(migrations_to_run) = "1.1.0"
    /\ has_code_support' = AddCodeSupport(has_code_support)
    /\ conn_migrations' = RecordMigration(conn_migrations, "1.1.0")
    /\ migrators_run' = Append(migrators_run, "1.1.0")
    /\ migrations_to_run' = Tail(migrations_to_run)
    /\ UNCHANGED <<mig_config, schema_migrations, has_migration_table, backup,
                   mig_pc, failed_version, current_version, mig_result,
                   migration_in_progress, lock_acquired, mig_runs>>
    /\ UNCHANGED <<reorgVars, nonMigVars>>

\* One turn of the loop for 1.1.0 when _migrate_to_1_1_0 raises
MigrateTo110Fails(restore) ==
    /\ mig_pc = "migrating"
    /\ migrations_to_run # <<>>
    /\ Head(migrations_to_run) = "1.1.0"
    /\ FailureReturns("1.1.0", restore, db_tasks)
    /\ UNCHANGED <<reorgHistVars, nonMigVars>>

\* One turn of the loop for 2.0.0: _migrate_to_2_0_0 closes self.conn, runs
\* run_granular_migration, which returns True, and reopens self.conn; then
\* _record_migration
MigrateTo200 ==
    /\ mig_pc = "migrating"
    /\ migrations_to_run # <<>>
    /\ Head(migrations_to_run) = "2.0.0"
    /\ GranularMigrationSkipped \/ GranularMigrationCommitted
    /\ conn_migrations' = RecordMigration(CloseConnection(conn_migrations), "2.0.0")
    /\ migrators_run' = Append(migrators_run, "2.0.0")
    /\ migrations_to_run' = Tail(migrations_to_run)
    /\ UNCHANGED <<mig_config, schema_migrations, has_migration_table,
                   has_code_support, backup, mig_pc, failed_version,
                   current_version, mig_result, migration_in_progress,
                   lock_acquired, mig_runs>>
    /\ UNCHANGED nonMigVars

\* One turn of the loop for 2.0.0 when run_granular_migration returns False:
\* _migrate_to_2_0_0 raises "Granular migration failed"
MigrateTo200Fails(step, restore) ==
    /\ mig_pc = "migrating"
    /\ migrations_to_run # <<>>
    /\ Head(migrations_to_run) = "2.0.0"
    /\ GranularMigrationFailed(step)
    /\ FailureReturns("2.0.0", restore, AfterFailedExecute(db_tasks, txn_tasks'))
    /\ UNCHANGED nonMigVars

\* _do_migration after the loop: self.conn.commit(), return True
DoMigrationCommit ==
    /\ mig_pc = "migrating"
    /\ migrations_to_run = <<>>
    /\ schema_migrations' = schema_migrations \o conn_migrations
    /\ Returns("True")
    /\ UNCHANGED <<mig_config, has_migration_table, has_code_support, backup,
                   migrators_run, failed_version, current_version, mig_runs>>
    /\ UNCHANGED <<reorgVars, nonMigVars>>

RecordedRows == {<<>>, <<"1.1.0">>, <<"2.0.0">>, <<"1.1.0", "2.0.0">>}

\* The store check_and_migrate finds at startup: a legacy task table or a
\* reorganized one, with the rows earlier runs committed
InitMig ==
    /\ \E n \in 0..MaxTasks :
         \E st \in [RegularTasks(n) -> {"pending", "cancelled"}],
            reorganized \in BOOLEAN :
              \E legacy \in {[t \in RegularTasks(n) |->
                      LegacyRow(st, [x \in RegularTasks(n) |-> NullId], NullId,
                                NullId, [x \in RegularTasks(n) |-> "plain"], t)]} :
                 db_tasks = IF reorganized THEN Reorganized(legacy) ELSE legacy
    /\ pre_tasks = <<>>
    /\ txn_tasks = <<>>
    /\ phase_mapping = NoMapping
    /\ phase_structure = {}
    /\ reorg_runs = 0
    /\ reorg_result = "none"
    /\ failed_steps = {}
    /\ mig_config \in [auto_migrate : BOOLEAN, interactive : BOOLEAN,
                       auto_backup : BOOLEAN]
    /\ schema_migrations \in RecordedRows
    /\ has_migration_table \in BOOLEAN
    /\ schema_migrations # <<>> => has_migration_table
    /\ has_code_support \in BOOLEAN
    /\ conn_migrations = <<>>
    /\ backup = NoBackup
    /\ mig_pc = "idle"
    /\ migrations_to_run = <<>>
    /\ migrators_run = <<>>
    /\ failed_version = NoVersion
    /\ current_version = NoVersion
    /\ mig_result = "none"
    /\ migration_in_progress = FALSE
    /\ lock_acquired = FALSE
    /\ mig_runs = 0

\* check_and_migrate is never called
MigIdle ==
    /\ mig_config = [auto_migrate |-> TRUE, interactive |-> TRUE, auto_backup |-> TRUE]
    /\ schema_migrations = <<>>
    /\ conn_migrations = <<>>
    /\ has_migration_table = FALSE
    /\ has_code_support = FALSE
    /\ backup = NoBackup
    /\ mig_pc = "idle"
    /\ migrations_to_run = <<>>
    /\ migrators_run = <<>>
    /\ failed_version = NoVersion
    /\ current_version = NoVersion
    /\ mig_result = "none"
    /\ migration_in_progress = FALSE
    /\ lock_acquired = FALSE
    /\ mig_runs = 0

\* check_and_migrate holds the lock and has set g.migration_in_progress; its
\* _do_migration has not started
MigRunning ==
    /\ mig_config = [auto_migrate |-> TRUE, interactive |-> TRUE, auto_backup |-> TRUE]
    /\ schema_migrations = <<>>
    /\ conn_migrations = <<>>
    /\ has_migration_table = FALSE
    /\ has_code_support = FALSE
    /\ backup = NoBackup
    /\ mig_pc = "locked"
    /\ migrations_to_run = <<>>
    /\ migrators_run = <<>>
    /\ failed_version = NoVersion
    /\ current_version = NoVersion
    /\ mig_result = "none"
    /\ migration_in_progress = TRUE
    /\ lock_acquired = TRUE
    /\ mig_runs = 1

(***************************************************************************)
(* auto_migrate.py: run_auto_migration, ensure_database_ready              *)
(***************************************************************************)

NoStartup == [entry |-> "none", db_exists |-> FALSE, result |-> "none"]

\* The methods class MigrationManager defines that auto_migrate.py could call
ManagerMethods == {"check_and_migrate", "get_migration_log"}

\* run_auto_migration: mm.get_current_version() raises AttributeError
\* (MigrationManager has _get_current_version only), `except Exception`
\* logs "Auto-migration failed" and returns True; check_and_migrate is not
\* reached
RunAutoMigrationResult ==
    IF "get_current_version" \notin ManagerMethods THEN "True" ELSE "none"

\* The server has just started: nothing has called check_and_migrate yet
AtStartup ==
    /\ startup = NoStartup
    /\ mig_pc = "idle"
    /\ mig_runs = 0

\* The database file may be absent only when nothing is stored
NoDatabase ==
    /\ db_tasks = <<>>
    /\ schema_migrations = <<>>
    /\ ~has_migration_table
    /\ ~has_code_support

\* run_auto_migration(project_dir), called on an existing database
RunAutoMigration ==
    /\ AtStartup
    /\ RunAutoMigrationResult # "none"
    /\ startup' = [entry |-> "run_auto_migration", db_exists |-> TRUE,
                   result |-> RunAutoMigrationResult]
    /\ UNCHANGED exit_status
    /\ UNCHANGED nonStartupVars

\* ensure_database_ready(project_dir): True when agent_data.db does not
\* exist, else what run_auto_migration returns
EnsureDatabaseReady(db_exists) ==
    /\ AtStartup
    /\ ~db_exists => NoDatabase
    /\ db_exists => RunAutoMigrationResult # "none"
    /\ startup' = [entry |-> "ensure_database_ready", db_exists |-> db_exists,
                   result |-> IF db_exists THEN RunAutoMigrationResult ELSE "True"]
    /\ UNCHANGED exit_status
    /\ UNCHANGED nonStartupVars

\* No startup entry point has been called; the process is running
StartupIdle ==
    /\ startup = NoStartup
    /\ exit_status = <<>>

NextMig ==
    \/ RunAutoMigration
    \/ \E db_exists \in BOOLEAN : EnsureDatabaseReady(db_exists)
    \/ CheckAndMigrateLockBusy
    \/ CheckAndMigrateAcquire
    \/ DoMigrationDisabled
    \/ DoMigrationUpToDate
    \/ DoMigrationDeclined
    \/ DoMigrationBegin
    \/ MigrateTo110
    \/ \E restore \in BOOLEAN : MigrateTo110Fails(restore)
    \/ MigrateTo200
    \/ \E step \in {"create_phase", "create_workstream"}, restore \in BOOLEAN :
          MigrateTo200Fails(step, restore)
    \/ DoMigrationCommit

(***************************************************************************)
(* Properties of the migration manager                                     *)
(***************************************************************************)

\* The call in which a migrator raised has returned
FailedRun == mig_pc = "returned" /\ failed_version # NoVersion

\* C9: when a migrator raises, check_and_migrate returns False, the failing
\* migrator is the last one that ran, no schema_migrations row for its
\* version is committed, and the version the next run detects is the one
\* this run detected
C9_FailedMigratorLeavesVersion ==
    FailedRun =>
       /\ mig_result = "False"
       /\ migrators_run[Len(migrators_run)] = failed_version
       /\ failed_version \notin SeqToSet(schema_migrations)
       /\ GetCurrentVersion(schema_migrations, db_tasks, has_code_support)
             = current_version

\* Scenario E: the 2.0.0 migrator raised on a store at 1.1.0
C9_Witness ==
    /\ FailedRun
    /\ failed_version = "2.0.0"
    /\ current_version = "1.1.0"
    /\ mig_result = "False"

\* C10: after check_and_migrate returns True, every version whose migrator
\* ran in the call has a committed schema_migrations row, and the latest
\* recorded version is 2.0.0
C10_AppliedIsRecorded ==
    (mig_pc = "returned" /\ mig_result = "True" /\ migrators_run # <<>>) =>
       /\ \A v \in SeqToSet(migrators_run) : v \in SeqToSet(schema_migrations)
       /\ schema_migrations # <<>>
       /\ schema_migrations[Len(schema_migrations)] = "2.0.0"

\* The known versions in their total order
KnownVersions == <<"1.0.0", "1.1.0", "2.0.0">>

\* The version the stated detection rule gives for a store
StatedVersion(rows, tbl, code) ==
    IF rows # <<>> THEN rows[Len(rows)]
    ELSE IF \E id \in Ids(tbl) : id.k = "phase" THEN "2.0.0"
    ELSE IF code THEN "1.1.0"
    ELSE "1.0.0"

\* The known versions strictly greater than v, ascending
VersionsAfter(v) ==
    LET rank == CHOOSE i \in 1..Len(KnownVersions) : KnownVersions[i] = v
    IN  SubSeq(KnownVersions, rank + 1, Len(KnownVersions))

\* The loop of _do_migration is about to run its first migrator
LoopStarts == mig_pc = "migrating" /\ migrators_run = <<>>

\* C11: the detected version is the latest recorded one, else 2.0.0 when a
\* phase_ task exists, else 1.1.0 when the tasks table has the code-support
\* column, else 1.0.0; and the migrators that run are exactly the known
\* versions strictly greater than it, in ascending order
C11_VersionDetection ==
    LoopStarts =>
       \E v \in {StatedVersion(schema_migrations, db_tasks, has_code_support)} :
          /\ current_version = v
          /\ migrations_to_run = VersionsAfter(v)

\* The code finds the database at CURRENT_VERSION
UpToDate == GetCurrentVersion(schema_migrations, db_tasks, has_code_support) = CURRENT_VERSION

\* C18: a startup entry point (ensure_database_ready, run_auto_migration)
\* called on an existing database that is not up to date reports success only
\* when check_and_migrate ran and returned True; when the migration failed or
\* could not be run it reports failure.
C18_StartupAbortsOnFailure ==
    (startup.result = "True" /\ startup.db_exists /\ ~UpToDate) => mig_result = "True"

\* C19: when the user declines the confirmation prompt, check_and_migrate
\* does not report success and the process exits with status 2.
C19_DeclineExitsWithStatus2 ==
    mig_pc = "exited" => (mig_result # "True" /\ exit_status = <<2>>)

C29_ExitClearsFlagAndLock ==
    /\ mig_pc \in {"returned", "exited"} => (~migration_in_progress /\ ~lock_acquired)
    /\ migration_in_progress => lock_acquired

\* A call that acquired the lock and left through a migrator failure
C29_Witness ==
    /\ mig_pc = "returned"
    /\ mig_result = "False"
    /\ failed_version # NoVersion
    /\ ~migration_in_progress
    /\ ~lock_acquired

\* This step is the user declining the prompt
Declines == mig_pc = "locked" /\ mig_pc' = "exited"

\* C20: when the user declines the prompt the database is as it was before
\* the call: no table created or altered, no task row and no
\* schema_migrations row written, no backup made, no migrator run.
C20_DeclineLeavesDatabase ==
    [][Declines =>
          /\ has_migration_table' = has_migration_table
          /\ has_code_support' = has_code_support
          /\ db_tasks' = db_tasks
          /\ schema_migrations' = schema_migrations
          /\ backup' = NoBackup
          /\ migrators_run' = <<>>]_vars

(***************************************************************************)
(* db_utils.py: retry_on_lock and the async wrapper of with_retry          *)
(*                                                                         *)
(* with_retry's sync wrapper calls retry_on_lock; its async wrapper has    *)
(* the same loop written out again.                                        *)
(***************************************************************************)

\* What the n-th invocation of func does (n counts from 1)
FuncOutcome(n) == IF n <= func_locked THEN "locked" ELSE func_then

\* range(max_retries + 1)
Attempts(m) == m + 1

\* except sqlite3.OperationalError as e: if "database is locked" not in str(e):
\* raise. Only the locked error is retried (IsRetriedAlsoOperational is the
\* contrary: every OperationalError retried)
IsRetriedAlsoOperational(outcome) == outcome \in {"locked", "operational"}

IsRetried(outcome) == outcome = "locked"

\* if attempt == max_retries: break (IsLastAttemptEarly breaks one attempt
\* sooner)
IsLastAttemptEarly(a, m) == a >= m - 1

IsLastAttempt(a, m) == a = m

\* delay = min(delay * backoff_factor, max_delay)
NextDelay(d) == IF d * BackoffFactor < MaxDelay THEN d * BackoffFactor ELSE MaxDelay

\* return func(): the attempt succeeds
AttemptReturns ==
    /\ retry_pc = "loop"
    /\ attempt < Attempts(max_retries)
    /\ FuncOutcome(func_calls + 1) = "ok"
    /\ func_calls' = func_calls + 1
    /\ retry_pc' = "returned"
    /\ UNCHANGED <<retry_via, max_retries, func_locked, func_then, attempt, delay,
                   retry_sleeps, raised>>
    /\ UNCHANGED nonRetryVars

\* func raises something that is not retried: it leaves the call as it is
AttemptRaises ==
    /\ retry_pc = "loop"
    /\ attempt < Attempts(max_retries)
    /\ FuncOutcome(func_calls + 1) # "ok"
    /\ ~IsRetried(FuncOutcome(func_calls + 1))
    /\ func_calls' = func_calls + 1
    /\ raised' = FuncOutcome(func_calls + 1)
    /\ retry_pc' = "raised"
    /\ UNCHANGED <<retry_via, max_retries, func_locked, func_then, attempt, delay,
                   retry_sleeps>>
    /\ UNCHANGED nonRetryVars

\* func raises "database is locked" and attempts remain: sleep, back off,
\* next turn of the loop
AttemptLockedSleeps ==
    /\ retry_pc = "loop"
    /\ attempt < Attempts(max_retries)
    /\ IsRetried(FuncOutcome(func_calls + 1))
    /\ ~IsLastAttempt(attempt, max_retries)
    /\ func_calls' = func_calls + 1
    /\ retry_sleeps' = Append(retry_sleeps, delay)
    /\ delay' = NextDelay(delay)
    /\ attempt' = attempt + 1
    /\ UNCHANGED <<retry_via, max_retries, func_locked, func_then, retry_pc, raised>>
    /\ UNCHANGED nonRetryVars

\* func raises "database is locked" on the last attempt: break, then
\* raise DatabaseLockError
AttemptLockedLast ==
    /\ retry_pc = "loop"
    /\ attempt < Attempts(max_retries)
    /\ IsRetried(FuncOutcome(func_calls + 1))
    /\ IsLastAttempt(attempt, max_retries)
    /\ func_calls' = func_calls + 1
    /\ raised' = "DatabaseLockError"
    /\ retry_pc' = "lock_error"
    /\ UNCHANGED <<retry_via, max_retries, func_locked, func_then, attempt, delay,
                   retry_sleeps>>
    /\ UNCHANGED nonRetryVars

\* A call that has just entered the loop
RetryStarts ==
    /\ attempt = 0
    /\ delay = InitialDelay
    /\ retry_pc = "loop"
    /\ func_calls = 0
    /\ retry_sleeps = <<>>
    /\ raised = "none"

InitRetry ==
    /\ retry_via \in {"retry_on_lock", "with_retry"}
    /\ max_retries \in 0..MaxRetries
    /\ func_locked \in 0..(MaxRetries + 2)
    /\ func_then \in {"ok", "operational", "other"}
    /\ RetryStarts

\* Nothing is retried
RetryIdle ==
    /\ retry_via = "retry_on_lock"
    /\ max_retries = 0
    /\ func_locked = 0
    /\ func_then = "ok"
    /\ RetryStarts

NextRetry ==
    \/ AttemptReturns
    \/ AttemptRaises
    \/ AttemptLockedSleeps
    \/ AttemptLockedLast

(***************************************************************************)
(* Properties of retry_on_lock                                             *)
(***************************************************************************)

\* C14: func is invoked at most max_retries + 1 times; the call returns on the
\* first attempt that succeeds and makes no further attempt; and it raises
\* DatabaseLockError exactly when each of the max_retries + 1 attempts failed
\* with "database is locked"
C14_BoundedRetry ==
    /\ func_calls <= max_retries + 1
    /\ retry_pc = "returned" =>
          /\ FuncOutcome(func_calls) = "ok"
          /\ \A n \in 1..(func_calls - 1) : FuncOutcome(n) = "locked"
    /\ retry_pc # "loop" =>
          (raised = "DatabaseLockError"
             <=> \A n \in 1..(max_retries + 1) : FuncOutcome(n) = "locked")
    /\ raised = "DatabaseLockError" => func_calls = max_retries + 1

\* The default budget used up: six attempts, all locked
C14_Witness ==
    /\ max_retries = 5
    /\ func_calls = 6
    /\ raised = "DatabaseLockError"

\* C15: an exception other than "database is locked", a sqlite3.OperationalError
\* with another message included, leaves the call unchanged on the attempt
\* where it occurs: no further attempt and no sleep after it
C15_OnlyLockedRetried ==
    \A n \in 1..func_calls :
       FuncOutcome(n) \in {"operational", "other"} =>
          /\ retry_pc = "raised"
          /\ raised = FuncOutcome(n)
          /\ func_calls = n
          /\ Len(retry_sleeps) = n - 1

\* An OperationalError with another message on the third attempt
C15_Witness ==
    /\ retry_pc = "raised"
    /\ raised = "operational"
    /\ func_calls = 3
    /\ Len(retry_sleeps) = 2

(***************************************************************************)
(* migration_config.py: MigrationConfig                                    *)
(***************************************************************************)

\* The keys of DEFAULTS the model follows: a bool and the two int knobs
ConfigKeys == {"auto_migrate", "min_tasks_per_workstream", "max_workstreams_per_phase"}

BoolKeys == {"auto_migrate"}

\* os.environ.get(env_key) is None; the file has no line for the key
Unset == "<unset>"

\* MigrationConfig.DEFAULTS
DefaultMinTasks == 5
DefaultMaxWorkstreams == 7
DEFAULTS ==
    [key \in ConfigKeys |->
        CASE key = "auto_migrate" -> TRUE
          [] key = "min_tasks_per_workstream" -> DefaultMinTasks
          [] key = "max_workstreams_per_phase" -> DefaultMaxWorkstreams]

\* The texts a user writes for a bool and for an int
BoolTexts == {"true", "false", "YES", "maybe"}
IntTexts == {"3", "6", "abc"}
TextsFor(key) == IF key \in BoolKeys THEN BoolTexts ELSE IntTexts

\* str.lower() on the texts above
Lower(text) == IF text = "YES" THEN "yes" ELSE text

\* int(text); "abc" raises ValueError
IntValues == [text \in {"3", "6"} |-> IF text = "3" THEN 3 ELSE 6]
IsInt(text) == text \in DOMAIN IntValues

\* The conversion both loaders apply: a bool key takes
\* text.lower() in ('true', '1', 'yes', 'on'); an int key takes int(text) and
\* keeps the value it has when int() raises ValueError
Convert(key, text, kept) ==
    IF key \in BoolKeys THEN Lower(text) \in {"true", "1", "yes", "on"}
    ELSE IF IsInt(text) THEN IntValues[text]
    ELSE kept

\* One loader's pass over a source of texts. __init__ calls
\* _load_from_environment, then _load_from_config_file
LoadFrom(source, current) ==
    [key \in ConfigKeys |->
        IF source[key] = Unset THEN current[key]
        ELSE Convert(key, source[key], current[key])]

\* __init__: self.settings = self.DEFAULTS.copy(); _load_from_environment()
LoadFromEnvironment ==
    /\ cfg_pc = "new"
    /\ settings' = LoadFrom(environ, settings)
    /\ cfg_pc' = "env"
    /\ UNCHANGED <<environ, conf_file>>
    /\ UNCHANGED nonConfigVars

\* __init__: _load_from_config_file()
LoadFromConfigFile ==
    /\ cfg_pc = "env"
    /\ settings' = LoadFrom(conf_file, settings)
    /\ cfg_pc' = "loaded"
    /\ UNCHANGED <<environ, conf_file>>
    /\ UNCHANGED nonConfigVars

Sources == {src \in [ConfigKeys -> BoolTexts \cup IntTexts \cup {Unset}] :
               \A key \in ConfigKeys : src[key] \in TextsFor(key) \cup {Unset}}

\* The module is imported: MigrationConfig() starts from the defaults, with
\* whatever the environment and the config file say
InitConfig ==
    /\ environ \in Sources
    /\ conf_file \in Sources
    /\ settings = DEFAULTS
    /\ cfg_pc = "new"

\* Nothing is configured; the defaults are in force
ConfigIdle ==
    /\ environ = [key \in ConfigKeys |-> Unset]
    /\ conf_file = [key \in ConfigKeys |-> Unset]
    /\ settings = DEFAULTS
    /\ cfg_pc = "loaded"

NextConfig ==
    \/ LoadFromEnvironment
    \/ LoadFromConfigFile

(***************************************************************************)
(* Properties of MigrationConfig                                           *)
(***************************************************************************)

\* A source sets the key to a text the conversion accepts
Sets(source, key) ==
    source[key] # Unset /\ (key \in BoolKeys \/ IsInt(source[key]))

\* The stated precedence: environment, then config file, then default
StatedValue(key) ==
    IF Sets(environ, key) THEN Convert(key, environ[key], DEFAULTS[key])
    ELSE IF Sets(conf_file, key) THEN Convert(key, conf_file[key], DEFAULTS[key])
    ELSE DEFAULTS[key]

\* C22: once the configuration is loaded, the effective value of every key
\* is the environment variable's when it is set, otherwise the config
\* file's when present, otherwise the default; the file never replaces a
\* value the environment set.
C22_EnvironmentFirst ==
    cfg_pc = "loaded" => \A key \in ConfigKeys : settings[key] = StatedValue(key)

(***************************************************************************)
(* relationship_aware_migration.py: _consolidate_clusters on task counts   *)
(***************************************************************************)

\* The keys of a phase_cluster_map in the order the dict holds them: the
\* types of _determine_workstream_type's patterns, then 'general'
WsOrder == <<"authentication", "quote_calculator", "dashboard", "api_development",
             "database", "ui_development", "testing", "deployment", "general">>
WsKeys == {WsOrder[i] : i \in 1..Len(WsOrder)}
WsIndex(ty) == CHOOSE i \in 1..Len(WsOrder) : WsOrder[i] = ty

\* The largest total_tasks a key of the argument has
MaxGroupSize == 5
GroupSizes == {0} \cup (MaxGroupSize - 1)..MaxGroupSize

RECURSIVE SumTotals(_, _)
SumTotals(totals, keys) ==
    IF keys = {} THEN 0
    ELSE LET ty == CHOOSE x \in keys : TRUE
         IN  totals[ty] + SumTotals(totals, keys \ {ty})

Present(totals) == {ty \in WsKeys : totals[ty] > 0}

\* "First pass: Keep large workstreams", "Second pass: Merge small clusters":
\* consolidated['general'] is assigned the small groups, over any large
\* 'general' the first pass kept
MergeSmall(map) ==
    LET large == {ty \in Present(map) : map[ty] >= MinTasksPerWorkstream}
        small == Present(map) \ large
    IN  [ty \in WsKeys |->
            IF ty = "general" /\ small # {} THEN SumTotals(map, small)
            ELSE IF ty \in large THEN map[ty]
            ELSE 0]

\* `if len(consolidated) > 7` and `sorted_ws[:6]`
HardMaxWorkstreams == 7
KeptWorkstreams == 6

\* The position of ty in sorted(..., key=total_tasks, reverse=True); sorted
\* is stable, equal totals keep the dict's order
Rank(totals, ty) ==
    Cardinality({x \in Present(totals) :
                    \/ totals[x] > totals[ty]
                    \/ totals[x] = totals[ty] /\ WsIndex(x) < WsIndex(ty)})

\* "Ensure we don't exceed maximum workstreams"
MergeExcess(cons) ==
    IF Cardinality(Present(cons)) <= HardMaxWorkstreams THEN cons
    ELSE LET keep == {ty \in Present(cons) : Rank(cons, ty) < KeptWorkstreams}
             merge == Present(cons) \ keep
         IN  [ty \in WsKeys |->
                 IF ty = "general"
                 THEN (IF "general" \in keep THEN cons["general"] ELSE 0)
                         + SumTotals(cons, merge \ {"general"})
                 ELSE IF ty \in keep THEN cons[ty]
                 ELSE 0]

\* RelationshipAwareMigration._consolidate_clusters
ConsolidateTotals(map) == MergeExcess(MergeSmall(map))

\* create_workstream_structure calls _consolidate_clusters on a phase's map
Consolidate ==
    /\ cons_pc = "ready"
    /\ consolidated' = ConsolidateTotals(phase_cluster_map)
    /\ cons_pc' = "done"
    /\ UNCHANGED phase_cluster_map
    /\ UNCHANGED nonConsVars

NoTotals == [ty \in WsKeys |-> 0]

\* The knobs are configured through the environment and loaded; a phase's
\* clusters are grouped by workstream type
InitCons ==
    /\ environ \in {src \in Sources : src["auto_migrate"] = Unset}
    /\ conf_file = [key \in ConfigKeys |-> Unset]
    /\ settings = LoadFrom(conf_file, LoadFrom(environ, DEFAULTS))
    /\ cfg_pc = "loaded"
    /\ phase_cluster_map \in [WsKeys -> GroupSizes]
    /\ consolidated = NoTotals
    /\ cons_pc = "ready"

\* _consolidate_clusters is not called
ConsIdle ==
    /\ phase_cluster_map = NoTotals
    /\ consolidated = NoTotals
    /\ cons_pc = "ready"

NextCons == Consolidate

\* C23: whatever min_tasks_per_workstream and max_workstreams_per_phase are
\* configured to, after consolidation no group of a workstream type that is
\* smaller than min_tasks_per_workstream stands on its own (it is merged
\* into general), and the phase has at most max_workstreams_per_phase
\* workstreams.
C23_KnobsRespected ==
    cons_pc = "done" =>
       /\ \A ty \in WsKeys \ {"general"} :
             (phase_cluster_map[ty] > 0
                /\ phase_cluster_map[ty] < settings["min_tasks_per_workstream"])
             => consolidated[ty] = 0
       /\ Cardinality(Present(consolidated)) <= settings["max_workstreams_per_phase"]

\* The number of tasks in the clusters a map lists; a group's 'clusters' and
\* 'total_tasks' are built and merged together
TasksListed(map) == SumTotals(map, WsKeys)

\* C31: the workstream plan leaves no task behind: the tasks assigned to the
\* workstreams of a phase are all the tasks of the clusters assigned to that
\* phase; consolidating into the general workstream drops no cluster.
C31_NoTaskLeftBehind ==
    cons_pc = "done" => TasksListed(consolidated) = TasksListed(phase_cluster_map)

(***************************************************************************)
(* The notes column under concurrent connections: advance_phase_tool_impl  *)
(* in two server processes and _migrate_task in the reorganizer            *)
(***************************************************************************)

\* The processes serving advance_phase on the same project database
NumHandlers == 2
Handlers == 1..NumHandlers

\* The reorganizer's connection
ReorgConn == NumHandlers + 1

\* How many advance_phase calls a handler process commits
MaxAdvances == 2

\* completion_note / migration_note: the entry a call appends
CompletionNote(p, n) == [author |-> "admin", by |-> p, n |-> n]
MigrationNote == [author |-> "granular_migration", by |-> ReorgConn, n |-> 1]

\* advance_phase, past the completion gate: SELECT notes, json.loads and
\* current_notes.append(completion_note). The SELECT runs outside any write
\* transaction and sees the committed column
AdvanceSelect(p) ==
    /\ h_pc[p] = "idle"
    /\ h_calls[p] < MaxAdvances
    /\ current_notes' = [current_notes EXCEPT
                            ![p] = Append(store_notes, CompletionNote(p, h_calls[p] + 1))]
    /\ h_pc' = [h_pc EXCEPT ![p] = "selected"]
    /\ UNCHANGED <<store_notes, writer, txn_notes, h_calls, reorg_pc>>
    /\ UNCHANGED nonNotesVars

\* advance_phase: UPDATE tasks SET status = 'completed', ..., notes = ? with
\* json.dumps(current_notes); the statement opens the write transaction
AdvanceUpdate(p) ==
    /\ h_pc[p] = "selected"
    /\ writer = 0
    /\ writer' = p
    /\ txn_notes' = current_notes[p]
    /\ h_pc' = [h_pc EXCEPT ![p] = "updated"]
    /\ UNCHANGED <<store_notes, current_notes, h_calls, reorg_pc>>
    /\ UNCHANGED nonNotesVars

\* advance_phase: the UPDATE finds the database locked by another
\* transaction until its busy timeout: sqlite3.Error, conn.rollback()
AdvanceLocked(p) ==
    /\ h_pc[p] = "selected"
    /\ writer # 0
    /\ h_pc' = [h_pc EXCEPT ![p] = "idle"]
    /\ current_notes' = [current_notes EXCEPT ![p] = <<>>]
    /\ UNCHANGED <<store_notes, writer, txn_notes, h_calls, reorg_pc>>
    /\ UNCHANGED nonNotesVars

\* advance_phase: log_agent_action_to_db and conn.commit()
AdvanceCommit(p) ==
    /\ h_pc[p] = "updated"
    /\ store_notes' = txn_notes
    /\ writer' = 0
    /\ txn_notes' = <<>>
    /\ h_pc' = [h_pc EXCEPT ![p] = "idle"]
    /\ current_notes' = [current_notes EXCEPT ![p] = <<>>]
    /\ h_calls' = [h_calls EXCEPT ![p] = @ + 1]
    /\ UNCHANGED reorg_pc
    /\ UNCHANGED nonNotesVars

\* advance_phase: a statement after the UPDATE raises; conn.rollback()
AdvanceRollback(p) ==
    /\ h_pc[p] = "updated"
    /\ writer' = 0
    /\ txn_notes' = <<>>
    /\ h_pc' = [h_pc EXCEPT ![p] = "idle"]
    /\ current_notes' = [current_notes EXCEPT ![p] = <<>>]
    /\ UNCHANGED <<store_notes, h_calls, reorg_pc>>
    /\ UNCHANGED nonNotesVars

\* _execute_granular_migration: the INSERTs of _create_phase and
\* _create_workstream_root open the reorganizer's write transaction
ReorgBegin ==
    /\ reorg_pc = "idle"
    /\ writer = 0
    /\ writer' = ReorgConn
    /\ txn_notes' = store_notes
    /\ reorg_pc' = "writing"
    /\ UNCHANGED <<store_notes, h_pc, current_notes, h_calls>>
    /\ UNCHANGED nonNotesVars

\* _migrate_task: SELECT * FROM tasks WHERE task_id = ? through the cursor
\* of the open transaction, append migration_note, UPDATE ... notes = ?
ReorgMigrateTask ==
    /\ reorg_pc = "writing"
    /\ txn_notes' = Append(txn_notes, MigrationNote)
    /\ reorg_pc' = "migrated"
    /\ UNCHANGED <<store_notes, writer, h_pc, current_notes, h_calls>>
    /\ UNCHANGED nonNotesVars

\* _execute_granular_migration: conn.commit()
ReorgCommit ==
    /\ reorg_pc = "migrated"
    /\ store_notes' = txn_notes
    /\ writer' = 0
    /\ txn_notes' = <<>>
    /\ reorg_pc' = "done"
    /\ UNCHANGED <<h_pc, current_notes, h_calls>>
    /\ UNCHANGED nonNotesVars

\* A task with no notes yet ('[]'); no connection has a transaction open
InitNotes ==
    /\ store_notes = <<>>
    /\ writer = 0
    /\ txn_notes = <<>>
    /\ h_pc = [p \in Handlers |-> "idle"]
    /\ current_notes = [p \in Handlers |-> <<>>]
    /\ h_calls = [p \in Handlers |-> 0]
    /\ reorg_pc = "idle"

NotesIdle == InitNotes

NextNotes ==
    \/ \E p \in Handlers :
          \/ AdvanceSelect(p)
          \/ AdvanceUpdate(p)
          \/ AdvanceLocked(p)
          \/ AdvanceCommit(p)
          \/ AdvanceRollback(p)
    \/ ReorgBegin
    \/ ReorgMigrateTask
    \/ ReorgCommit

IsPrefix(a, b) == Len(a) <= Len(b) /\ SubSeq(b, 1, Len(a)) = a

\* C25: notes is append-only: under every interleaving of concurrent
\* advance_phase calls and the reorganizer, each committed write of a
\* task's notes leaves the previously committed sequence as a prefix of the
\* new one (no entry mutated or removed, the length never decreasing).
C25_NotesAppendOnly ==
    [][IsPrefix(store_notes, store_notes')]_vars

(***************************************************************************)
(* granular_migration.py Steps 1 and 2, and the phase a cluster is given   *)
(***************************************************************************)

\* current_work['primary_focus']: the category with most active tasks, None
\* when no active task matches a keyword
PrimaryFocuses == {"None", "infrastructure", "features", "ui_development", "optimization"}

\* The flags of _analyze_completed_work's result
CompletedWorks ==
    [foundation_complete : BOOLEAN, has_user_interface : BOOLEAN,
     has_business_logic : BOOLEAN, is_production_ready : BOOLEAN]

\* Step1_ProjectStateAnalyzer._identify_development_stage
IdentifyDevelopmentStage(completed_work, primary_focus) ==
    IF ~completed_work.foundation_complete THEN "foundation_building"
    ELSE IF ~completed_work.has_business_logic \/ primary_focus = "features"
         THEN "feature_development"
    ELSE IF ~completed_work.has_user_interface \/ primary_focus = "ui_development"
         THEN "ui_coordination"
    ELSE IF primary_focus = "optimization" \/ completed_work.is_production_ready
         THEN "optimization_polish"
    ELSE "transitional"

\* Step2_PhaseCurrentStateMapper.map_to_phases: current_phase
MappedCurrentPhase(stage, completed_work) ==
    IF stage = "foundation_building" THEN "phase_1_foundation"
    ELSE IF stage = "feature_development"
         THEN (IF completed_work.foundation_complete THEN "phase_2_intelligence"
               ELSE "phase_1_foundation")
    ELSE IF stage = "ui_coordination" THEN "phase_3_coordination"
    ELSE IF stage = "optimization_polish" THEN "phase_4_optimization"
    ELSE IF completed_work.has_user_interface /\ completed_work.has_business_logic
         THEN "phase_3_coordination"
    ELSE IF completed_work.has_business_logic THEN "phase_2_intelligence"
    ELSE IF completed_work.foundation_complete THEN "phase_2_intelligence"
    ELSE "phase_1_foundation"

\* Step2_PhaseCurrentStateMapper.map_to_phases: completed_phases
MappedCompletedPhases(stage, completed_work) ==
    IF stage = "foundation_building" THEN {}
    ELSE IF stage = "feature_development"
         THEN (IF completed_work.foundation_complete THEN {"phase_1_foundation"} ELSE {})
    ELSE IF stage = "ui_coordination" THEN {"phase_1_foundation", "phase_2_intelligence"}
    ELSE IF stage = "optimization_polish"
         THEN {"phase_1_foundation", "phase_2_intelligence", "phase_3_coordination"}
    ELSE IF completed_work.has_user_interface /\ completed_work.has_business_logic
         THEN {"phase_1_foundation", "phase_2_intelligence"}
    ELSE IF completed_work.has_business_logic THEN {"phase_1_foundation"}
    ELSE {}

\* Step2_PhaseCurrentStateMapper.map_to_phases: next_phase stays None when
\* the current phase is the last of phase_order
MapToPhasesResult(analysis) ==
    LET current == MappedCurrentPhase(analysis.development_stage, analysis.completed_work) IN
    [current_phase |-> current,
     completed_phases |-> MappedCompletedPhases(analysis.development_stage,
                                                analysis.completed_work),
     next_phase |-> NextPhaseOf(current)]

\* Step 2 of run_granular_migration
MapToPhases ==
    /\ assign_pc = "analyzed"
    /\ step2_mapping' = MapToPhasesResult(state_analysis)
    /\ assign_pc' = "mapped"
    /\ UNCHANGED <<state_analysis, cluster, cluster_phase>>
    /\ UNCHANGED nonAssignVars

\* RelationshipAwareMigration._assign_clusters_to_phases, for the cluster
AssignClustersToPhases ==
    /\ assign_pc = "mapped"
    /\ cluster_phase' = AssignClusterToPhase(cluster, DOMAIN cluster, step2_mapping)
    /\ assign_pc' = "assigned"
    /\ UNCHANGED <<state_analysis, cluster, step2_mapping>>
    /\ UNCHANGED nonAssignVars

\* The statuses of the non-cancelled tasks a cluster is made of
ClusterStatuses == {"pending", "in_progress", "completed"}

\* Step 1 has analysed the project; one cluster of one or two tasks
InitAssign ==
    /\ \E completed_work \in CompletedWorks, primary_focus \in PrimaryFocuses :
          state_analysis =
              [completed_work |-> completed_work,
               primary_focus |-> primary_focus,
               development_stage |-> IdentifyDevelopmentStage(completed_work, primary_focus)]
    /\ \E n \in 1..2 : cluster \in [RegularTasks(n) -> [status : ClusterStatuses]]
    /\ step2_mapping = NoMapping
    /\ cluster_phase = "None"
    /\ assign_pc = "analyzed"

\* No plan is being made
AssignIdle ==
    /\ state_analysis = [completed_work |-> [foundation_complete |-> FALSE,
                                             has_user_interface |-> FALSE,
                                             has_business_logic |-> FALSE,
                                             is_production_ready |-> FALSE],
                         primary_focus |-> "None",
                         development_stage |-> "foundation_building"]
    /\ cluster = <<>>
    /\ step2_mapping = NoMapping
    /\ cluster_phase = "None"
    /\ assign_pc = "idle"

NextAssign == MapToPhases \/ AssignClustersToPhases

\* C33: every cluster is assigned to one of the four canonical phases, for
\* every development stage and every mix of task statuses, an entirely
\* pending cluster under current phase phase_4_optimization included.
C33_ClusterGetsCanonicalPhase ==
    assign_pc = "assigned" => KnownPhase(cluster_phase)

(***************************************************************************)
(* Specifications                                                          *)
(***************************************************************************)

\* The lock protocol on its own: nothing else moves
InitSpecLock ==
    /\ InitLock
    /\ ReorgIdle
    /\ PhaseIdle
    /\ MigIdle
    /\ RetryIdle
    /\ StartupIdle
    /\ ConfigIdle
    /\ ConsIdle
    /\ NotesIdle
    /\ AssignIdle

SpecLock == InitSpecLock /\ [][NextLock]_vars

\* One reorganization on its own: nothing else moves
InitSpecReorg ==
    /\ InitReorg
    /\ LockIdle
    /\ PhaseIdle
    /\ MigIdle
    /\ RetryIdle
    /\ StartupIdle
    /\ ConfigIdle
    /\ ConsIdle
    /\ NotesIdle
    /\ AssignIdle

SpecReorg == InitSpecReorg /\ [][NextReorg]_vars

\* The phase management tools on a started server
InitSpecPhase ==
    /\ InitPhase
    /\ LockIdle
    /\ ReorgHistIdle
    /\ MigIdle \/ MigRunning
    /\ RetryIdle
    /\ StartupIdle
    /\ ConfigIdle
    /\ ConsIdle
    /\ NotesIdle
    /\ AssignIdle

SpecPhase == InitSpecPhase /\ [][NextPhase]_vars

\* The startup migration on its own; the reorganizer runs inside it
InitSpecMig ==
    /\ InitMig
    /\ LockIdle
    /\ PhaseIdle
    /\ RetryIdle
    /\ StartupIdle
    /\ ConfigIdle
    /\ ConsIdle
    /\ NotesIdle
    /\ AssignIdle

SpecMig == InitSpecMig /\ [][NextMig]_vars

\* One call of retry_on_lock, or of a function decorated with with_retry
InitSpecRetry ==
    /\ InitRetry
    /\ LockIdle
    /\ ReorgIdle
    /\ PhaseIdle
    /\ MigIdle
    /\ StartupIdle
    /\ ConfigIdle
    /\ ConsIdle
    /\ NotesIdle
    /\ AssignIdle

SpecRetry == InitSpecRetry /\ [][NextRetry]_vars

\* MigrationConfig on its own
InitSpecConfig ==
    /\ InitConfig
    /\ LockIdle
    /\ ReorgIdle
    /\ PhaseIdle
    /\ MigIdle
    /\ RetryIdle
    /\ StartupIdle
    /\ ConsIdle
    /\ NotesIdle
    /\ AssignIdle

SpecConfig == InitSpecConfig /\ [][NextConfig]_vars

\* _consolidate_clusters on its own, under a loaded configuration
InitSpecCons ==
    /\ InitCons
    /\ LockIdle
    /\ ReorgIdle
    /\ PhaseIdle
    /\ MigIdle
    /\ RetryIdle
    /\ StartupIdle
    /\ NotesIdle
    /\ AssignIdle

SpecCons == InitSpecCons /\ [][NextCons]_vars

\* The notes column of one task under concurrent connections
InitSpecNotes ==
    /\ InitNotes
    /\ LockIdle
    /\ ReorgIdle
    /\ PhaseIdle
    /\ MigIdle
    /\ RetryIdle
    /\ StartupIdle
    /\ ConfigIdle
    /\ ConsIdle
    /\ AssignIdle

SpecNotes == InitSpecNotes /\ [][NextNotes]_vars
\* Steps 1 and 2 and the phase assignment of one cluster
InitSpecAssign ==
    /\ InitAssign
    /\ LockIdle
    /\ ReorgIdle
    /\ PhaseIdle
    /\ MigIdle
    /\ RetryIdle
    /\ StartupIdle
    /\ ConfigIdle
    /\ ConsIdle
    /\ NotesIdle

SpecAssign == InitSpecAssign /\ [][NextAssign]_vars

====
